---- MODULE Spec2Model ----
(***************************************************************************)
(* Realtek RTD2142 DisplayPort MST hub: firmware-update core               *)
(* (plugins/realtek-mst/fu-realtek-mst-device.c).                          *)
(*                                                                         *)
(* The model has two sides.  The host side is the device session of the    *)
(* plugin (active_bank, device flags, version, status) and one action per  *)
(* device-class hook (setup, reload, detach, write_firmware, attach).  The *)
(* chip side is what the hooks talk to over I2C: the dual-bank status      *)
(* response, the ISP bit of MCU_MODE, GPIO-88 and the external SPI flash.  *)
(* An I2C transfer may fail; where a hook makes several transfers the      *)
(* action chooses the transfer that fails.                                 *)
(*                                                                         *)
(* The flash is 1 MiB.  The model keeps the bytes at the addresses of      *)
(* TrackedAddrs (the edges of the blocks and sectors the hooks address)    *)
(* with their real addresses and values; every other byte is left out.     *)
(***************************************************************************)
EXTENDS Integers, Sequences, FiniteSets, TLC

VARIABLES
    active_bank,   \* self->active_bank
    dev_flags,     \* FwupdDevice flags of the device
    version,       \* fu_device_get_version (NoVersion when unset)
    status,        \* last fu_device_set_status
    ret,           \* what the last hook returned
    last_call,     \* the last hook called
    last_info,     \* struct dual_bank_info of the last dual-bank query that succeeded
    last_response, \* the 11 bytes that query read
    run,           \* record of the last write_firmware run (flash operations issued)
    ncalls,        \* number of hooks called so far
    tracing,       \* the steps of detach, attach and read_firmware are recorded
    accesses,      \* when tracing: the steps of the last detach, attach or read_firmware
    prev,          \* what the last call followed: an attach a successful detach
                   \* (detach_ok), a probe a successful probe of the same response (same)
    detached,      \* a detach has succeeded and no attach has run since
    io_run,        \* a register script run alone: its steps, the transfers
                   \* that fail, the steps issued and what it returns
    poll,          \* one call of mst_poll_register: the clock, the deadline,
                   \* the reads made so far and what it returns
    dp_aux_dev_name, \* self->dp_aux_dev_name
    quirk_kv,      \* the key and value of the last set_quirk_kv call
    xfer,          \* one call of flash_iface_read or flash_iface_write, pass by
                   \* pass of its loop
    gpio_run,      \* the calls of mst_set_gpio88 made alone: the level asked, the
                   \* registers before the call, its steps, what it returns
    spi,           \* a FuSpiFlash: its adapter and the last call made on it
    resp,          \* chip: the 11-byte dual-bank status response
    running_bank,  \* chip: the bank the MCU is executing from
    isp,           \* chip: bit 7 of MCU_MODE (ISP mode active)
    gpio88_config, \* chip: indirect register 0x104F
    gpio88_value,  \* chip: indirect register 0xFE3F
    mcu_clock,     \* chip: indirect register 0x06A0
    flash,         \* chip: external SPI flash, the tracked bytes
    flash0         \* the flash as it was before the first call

vars == <<active_bank, dev_flags, version, status, ret, last_call, last_info,
          last_response, run, ncalls, tracing, accesses, prev, detached, io_run, poll,
          dp_aux_dev_name, quirk_kv, xfer, gpio_run, spi,
          resp, running_bank, isp, gpio88_config, gpio88_value, mcu_clock,
          flash, flash0>>

hostVars == <<active_bank, dev_flags, version, status, ret, last_call, last_info,
              last_response, run, ncalls, tracing, accesses, prev, detached, io_run, poll,
              dp_aux_dev_name, quirk_kv, xfer, gpio_run, spi>>
chipVars == <<resp, running_bank, isp, gpio88_config, gpio88_value, mcu_clock, flash, flash0>>

-----------------------------------------------------------------------------
(* Program constants *)

MCU_MODE_ISP == 128
MCU_MODE_WRITE_BUSY == 32
MCU_MODE_WRITE_BUF == 16

DUAL_BANK_USER_ONLY == 0
DUAL_BANK_DIFF == 1
DUAL_BANK_COPY == 2
DUAL_BANK_USER_ONLY_FLAG == 3
DUAL_BANK_MAX_VALUE == 3

FLASH_BANK_BOOT == 0
FLASH_BANK_USER1 == 1
FLASH_BANK_USER2 == 2
FLASH_BANK_MAX_VALUE == 2
FLASH_BANK_INVALID == 255

FLASH_SIZE == 1048576        \* 0x100000
FLASH_USER1_ADDR == 65536    \* 0x10000
FLASH_FLAG1_ADDR == 1041156  \* 0xfe304
FLASH_USER2_ADDR == 524288   \* 0x80000
FLASH_FLAG2_ADDR == 1045252  \* 0xff304
FLASH_USER_SIZE == 458752    \* 0x70000

SECTOR_SIZE == 4096
BLOCK_SIZE == 65536
PAGE_SIZE == 256             \* "read up to 256 bytes", chunk_size of a page write

REG_CMD_ATTR == 96            \* 0x60
CMD_ERASE_BUSY == 1
REG_ERASE_OPCODE == 97        \* 0x61
CMD_OPCODE_ERASE_SECTOR == 32 \* 0x20
CMD_OPCODE_ERASE_BLOCK == 216 \* 0xD8
REG_CMD_ADDR_HI == 100        \* 0x64
REG_CMD_ADDR_MID == 101       \* 0x65
REG_CMD_ADDR_LO == 102        \* 0x66
REG_READ_OPCODE == 106        \* 0x6A
CMD_OPCODE_READ == 3
REG_WRITE_OPCODE == 109       \* 0x6D
CMD_OPCODE_WRITE == 2
REG_MCU_MODE == 111           \* 0x6F
REG_WRITE_FIFO == 112         \* 0x70
REG_WRITE_LEN == 113          \* 0x71
REG_INDIRECT_LO == 244        \* 0xF4
REG_INDIRECT_HI == 245        \* 0xF5
REG_RESET == 238              \* 0xEE, bit 1 requests a reset
RESET_REQUEST == 2

REG_GPIO88_CONFIG == 4175    \* 0x104F
REG_GPIO88_VALUE == 65087    \* 0xFE3F
REG_MCU_CLOCK == 1696        \* 0x06A0
MCU_CLOCK_FAST == 116        \* 0x74

ERASED == 255                \* a flash byte after an erase

\* the flag record write_firmware programs: {0xaa, 0xaa, 0xaa, 0xff, 0xff}
flag_data == <<170, 170, 170, 255, 255>>

NoVersion == ""

-----------------------------------------------------------------------------
(* Bytes *)

RECURSIVE BitAndN(_, _, _)
BitAndN(a, b, n) ==
    IF n = 0 THEN 0
    ELSE (a % 2) * (b % 2) + 2 * BitAndN(a \div 2, b \div 2, n - 1)

\* a & b on bytes
BitAnd(a, b) ==
    IF a = b \/ b = 255 THEN a
    ELSE IF a = 255 THEN b
    ELSE BitAndN(a, b, 8)

RECURSIVE BitOrN(_, _, _)
BitOrN(a, b, n) ==
    IF n = 0 THEN 0
    ELSE (IF a % 2 = 1 \/ b % 2 = 1 THEN 1 ELSE 0) + 2 * BitOrN(a \div 2, b \div 2, n - 1)

\* a | b on bytes
BitOr(a, b) == BitOrN(a, b, 8)

Min(a, b) == IF a < b THEN a ELSE b

-----------------------------------------------------------------------------
(* Model bounds *)

\* response bytes the chip may return: enable byte 0..MaxEnableByte,
\* mode byte 0..MaxModeByte, active-bank byte 0..MaxBankByte
MaxEnableByte == 2
MaxModeByte == 4
MaxBankByte == 3
\* hooks called in one behaviour
MaxCalls == 3

-----------------------------------------------------------------------------
(* Chip: dual-bank status response *)

\* response[i] of the C code (0-based)
Byte(response, i) == response[i + 1]

MkResp(b0, b1, enable, mode, bank) == <<b0, b1, enable, mode, bank, 2, 5, 3, 7, 0, 0>>

\* header bytes: the expected (0xca, 9), a wrong length, a wrong code
Headers == {<<202, 9>>, <<202, 8>>, <<0, 9>>}

\* the responses of the probe specification
RespProbe ==
    {MkResp(h[1], h[2], e, m, b) :
        h \in Headers, e \in 0..MaxEnableByte, m \in 0..MaxModeByte, b \in 0..MaxBankByte}

\* the response of the update specification: dual-bank diff, header as expected
RespUpdate(bank) == {MkResp(202, 9, 1, DUAL_BANK_DIFF, bank)}

\* a chip reports the bank it runs from whenever it reports a bank at all
Truthful(response, bank) ==
    Byte(response, 4) <= FLASH_BANK_MAX_VALUE => Byte(response, 4) = bank

-----------------------------------------------------------------------------
(* DDCCI dual-bank query and version probe *)

Undef == -1

NoInfo == [is_enabled |-> FALSE, mode |-> Undef, active_bank |-> Undef,
           user1_version |-> <<Undef, Undef>>, user2_version |-> <<Undef, Undef>>]

\* a decoder that accepts any active-bank byte
GetDualBankInfo_NoBankCheck(response) ==
    IF Byte(response, 0) # 202 \/ Byte(response, 1) # 9 THEN NoInfo
    ELSE IF Byte(response, 2) # 1 THEN NoInfo
    ELSE IF Byte(response, 3) > DUAL_BANK_MAX_VALUE
        THEN [NoInfo EXCEPT !.mode = Byte(response, 3)]
    ELSE [is_enabled |-> TRUE, mode |-> Byte(response, 3),
          active_bank |-> Byte(response, 4),
          user1_version |-> <<Byte(response, 5), Byte(response, 6)>>,
          user2_version |-> <<Byte(response, 7), Byte(response, 8)>>]

\* fu_realtek_mst_device_get_dual_bank_info, after the three transfers succeeded
GetDualBankInfo(response) ==
    IF Byte(response, 0) # 202 \/ Byte(response, 1) # 9 THEN NoInfo
    ELSE IF Byte(response, 2) # 1 THEN NoInfo
    ELSE IF Byte(response, 3) > DUAL_BANK_MAX_VALUE
        THEN [NoInfo EXCEPT !.mode = Byte(response, 3)]
    ELSE IF Byte(response, 4) > FLASH_BANK_MAX_VALUE
        THEN [NoInfo EXCEPT !.mode = Byte(response, 3), !.active_bank = Byte(response, 4)]
    ELSE [is_enabled |-> TRUE, mode |-> Byte(response, 3),
          active_bank |-> Byte(response, 4),
          user1_version |-> <<Byte(response, 5), Byte(response, 6)>>,
          user2_version |-> <<Byte(response, 7), Byte(response, 8)>>]

\* the transfers of the query: write (0xca, 0x09), write 0x01, read 11 bytes
QueryIo == {"ok", "write_ddcci_fails", "write_request_fails", "read_response_fails"}

\* a probe that leaves the session as it was
PreClear_Skip(s) == s

\* "ensure probed state is cleared in case of error"
PreClear(s) ==
    [s EXCEPT !.dev_flags = @ \ {"UPDATABLE"},
              !.active_bank = FLASH_BANK_INVALID,
              !.version = NoVersion]

\* a probe that takes every enabled dual-bank mode as updatable
CanUpdate_AnyMode(info) == info.is_enabled

\* the two early returns of probe_version
CanUpdate(info) == info.is_enabled /\ info.mode = DUAL_BANK_DIFF

\* g_strdup_printf ("%u.%u", active_version[0], active_version[1])
FormatVersion(v) == ToString(v[1]) \o "." \o ToString(v[2])

\* a probe that always publishes the version of USER1
ActiveVersion_User1(info) == FormatVersion(info.user1_version)

\* the version published for the active bank
ActiveVersion(info) ==
    IF info.active_bank = FLASH_BANK_USER1 THEN FormatVersion(info.user1_version)
    ELSE IF info.active_bank = FLASH_BANK_USER2 THEN FormatVersion(info.user2_version)
    ELSE NoVersion

\* a probe that is skipped, after the pre-clear, on a device that is UPDATABLE
ProbeVersion_OnceOnly(s, response, io) ==
    IF "UPDATABLE" \in s.dev_flags /\ io = "ok"
    THEN [PreClear(s) EXCEPT !.ret = "TRUE", !.response = response,
                             !.info = GetDualBankInfo(response)]
    ELSE
    LET c == PreClear(s)
        info == GetDualBankInfo(response)
    IN  IF io # "ok" THEN [c EXCEPT !.ret = "Io"]
        ELSE IF ~CanUpdate(info)
            THEN [c EXCEPT !.ret = "TRUE", !.info = info, !.response = response]
        ELSE IF info.active_bank > FLASH_BANK_MAX_VALUE
            \* g_return_val_if_fail, after UPDATABLE was added
            THEN [c EXCEPT !.dev_flags = @ \cup {"UPDATABLE"},
                           !.ret = "Precondition", !.info = info, !.response = response]
        ELSE [c EXCEPT !.dev_flags = @ \cup {"UPDATABLE"},
                       !.active_bank = info.active_bank,
                       !.version = ActiveVersion(info),
                       !.ret = "TRUE",
                       !.info = info,
                       !.response = response]

\* fu_realtek_mst_device_probe_version on session s
ProbeVersion(s, response, io) ==
    LET c == PreClear(s)
        info == GetDualBankInfo(response)
    IN  IF io # "ok" THEN [c EXCEPT !.ret = "Io"]
        ELSE IF ~CanUpdate(info)
            THEN [c EXCEPT !.ret = "TRUE", !.info = info, !.response = response]
        ELSE IF info.active_bank > FLASH_BANK_MAX_VALUE
            \* g_return_val_if_fail, after UPDATABLE was added
            THEN [c EXCEPT !.dev_flags = @ \cup {"UPDATABLE"},
                           !.ret = "Precondition", !.info = info, !.response = response]
        ELSE [c EXCEPT !.dev_flags = @ \cup {"UPDATABLE"},
                       !.active_bank = info.active_bank,
                       !.version = ActiveVersion(info),
                       !.ret = "TRUE",
                       !.info = info,
                       !.response = response]

Session ==
    [active_bank |-> active_bank, dev_flags |-> dev_flags, version |-> version,
     ret |-> ret, info |-> last_info, response |-> last_response]

NoPrev == [detach_ok |-> FALSE, same |-> FALSE]

\* a call of fu_realtek_mst_device_probe_version
Probe ==
    /\ ncalls < MaxCalls
    /\ \E io \in QueryIo :
        \E s \in {ProbeVersion(Session, resp, io)} :
            /\ ncalls' = ncalls + 1
            /\ active_bank' = s.active_bank
            /\ dev_flags' = s.dev_flags
            /\ version' = s.version
            /\ ret' = s.ret
            /\ last_info' = s.info
            /\ last_response' = s.response
            /\ last_call' = "probe_version"
            /\ accesses' = <<>>
            /\ prev' = [detach_ok |-> FALSE,
                        same |-> /\ io = "ok"
                                 /\ last_call = "probe_version"
                                 /\ ret = "TRUE"
                                 /\ last_response = resp]
            /\ UNCHANGED <<status, run, detached, tracing, io_run, poll>>
            /\ UNCHANGED <<dp_aux_dev_name, quirk_kv, xfer, gpio_run, spi>>
            /\ UNCHANGED chipVars

\* klass_device->setup = fu_realtek_mst_device_probe_version
Setup == Probe

\* klass_device->reload = fu_realtek_mst_device_probe_version
Reload == Probe

-----------------------------------------------------------------------------
(* Chip: external SPI flash *)

\* offsets of an image whose bytes the model keeps: the first and last byte
\* of the first 64 KiB block, the first byte of the second block, the last
\* byte of the image
ImageOffsets == {0, BLOCK_SIZE - 1, BLOCK_SIZE, FLASH_USER_SIZE - 1}

FlagSector(flag_addr) == flag_addr - (flag_addr % SECTOR_SIZE)

\* bytes kept of the sector of a flag record: the edges of the sector, the
\* record and the bytes around it
FlagCells(flag_addr) ==
    {FlagSector(flag_addr), flag_addr - 1, flag_addr, flag_addr + 2, flag_addr + 3,
     flag_addr + 4, flag_addr + 5, FlagSector(flag_addr) + SECTOR_SIZE - 1}

TrackedAddrs ==
    {FLASH_USER1_ADDR + o : o \in ImageOffsets} \cup {FLASH_USER2_ADDR + o : o \in ImageOffsets}
    \cup {FLASH_USER1_ADDR - 1, FLASH_USER2_ADDR + FLASH_USER_SIZE}
    \cup FlagCells(FLASH_FLAG1_ADDR) \cup FlagCells(FLASH_FLAG2_ADDR)

\* contents of the flash before the first call: every byte 0x00 (fully
\* programmed) or every byte 0xff (blank)
PriorBytes == {0, 255}

\* an erase sets every byte of [lo, lo + size) to 0xff
FlashErase(fl, lo, size) ==
    [a \in DOMAIN fl |-> IF lo <= a /\ a < lo + size THEN ERASED ELSE fl[a]]

\* byte off of data d: a byte string, or a string of d.len bytes that is
\* d.lo below offset d.split and d.hi from there on
DataByte(d, off) ==
    IF d.bytes # <<>> THEN d.bytes[off + 1]
    ELSE IF off < d.split THEN d.lo ELSE d.hi

\* programming can only clear bits: n bytes of d at address
FlashProgram(fl, address, n, d) ==
    [a \in DOMAIN fl |->
        IF address <= a /\ a < address + n
        THEN BitAnd(fl[a], DataByte(d, a - address))
        ELSE fl[a]]

\* bit 0 of GPIO88_VALUE drives the flash ~WP pin
WriteProtectOff(value) == value % 2 = 1

\* the flash controller acts on the flash in ISP mode with ~WP released
Writable(c) == c.isp /\ WriteProtectOff(c.gpio88_value)

-----------------------------------------------------------------------------
(* Flash interface *)

\* how a scripted flash operation ends.  started: the write that starts the
\* operation was issued; applied: the chip carried the operation out;
\* res: what the script returns
OkOutcome == [started |-> TRUE, applied |-> TRUE, res |-> "ok"]

\* a register write ahead of the start fails; the start write or a poll read
\* fails; the busy bit stays set until the deadline
EraseFailures ==
    {[started |-> FALSE, applied |-> FALSE, res |-> "Io"]}
    \cup {[started |-> TRUE, applied |-> a, res |-> r] : a \in BOOLEAN, r \in {"Io", "Timeout"}}

\* a page write also polls WRITE_BUF ahead of the start
WriteFailures ==
    EraseFailures \cup {[started |-> FALSE, applied |-> FALSE, res |-> "Timeout"]}

Log(c, entry) == [c EXCEPT !.ops = Append(@, entry)]

\* a host that is told the latest status only
SetStatus_Latest(c, st) == [c EXCEPT !.statuses = <<st>>]

\* fu_device_set_status in write_firmware
SetStatus(c, st) == [c EXCEPT !.statuses = Append(@, st)]

\* flash_iface_erase_sector
flash_iface_erase_sector(c, address, o) ==
    IF address % SECTOR_SIZE # 0 THEN [c EXCEPT !.ret = "Precondition"]
    ELSE LET c1 == IF o.started THEN Log(c, [op |-> "erase_sector", addr |-> address, len |-> SECTOR_SIZE])
                   ELSE c
         IN  [c1 EXCEPT !.ret = o.res,
                        !.flash = IF o.applied /\ Writable(c)
                                  THEN FlashErase(@, address, SECTOR_SIZE) ELSE @]

\* flash_iface_erase_block: only the high address byte selects the block
flash_iface_erase_block(c, address, o) ==
    IF address % BLOCK_SIZE # 0 THEN [c EXCEPT !.ret = "Precondition"]
    ELSE LET block == (address \div BLOCK_SIZE) * BLOCK_SIZE
             c1 == IF o.started THEN Log(c, [op |-> "erase_block", addr |-> block, len |-> BLOCK_SIZE])
                   ELSE c
         IN  [c1 EXCEPT !.ret = o.res,
                        !.flash = IF o.applied /\ Writable(c)
                                  THEN FlashErase(@, block, BLOCK_SIZE) ELSE @]

\* number of pages of a write of n bytes
NumPages(n) == (n + PAGE_SIZE - 1) \div PAGE_SIZE

NoPageFails == [page |-> -1, o |-> OkOutcome]

\* flash_iface_write: pages of up to 256 bytes, in order; page pf.page ends
\* as pf.o says, every page before it succeeds.  The start of a page writes
\* MCU_MODE = ISP | WRITE_BUSY, which may take a chip that is not in ISP
\* mode into it (enter).
flash_iface_write(c, address, d, pf, enter) ==
    LET fails == pf.page >= 0 /\ pf.page < NumPages(d.len)
        started == IF fails THEN pf.page + (IF pf.o.started THEN 1 ELSE 0) ELSE NumPages(d.len)
        applied == IF fails THEN pf.page + (IF pf.o.applied THEN 1 ELSE 0) ELSE NumPages(d.len)
        c1 == IF started > 0
              THEN Log(c, [op |-> "write", addr |-> address,
                           len |-> Min(d.len, started * PAGE_SIZE), data |-> d])
              ELSE c
    IN  [c1 EXCEPT !.ret = IF fails THEN pf.o.res ELSE "ok",
                   !.flash = IF Writable(c)
                             THEN FlashProgram(@, address, Min(d.len, applied * PAGE_SIZE), d)
                             ELSE @,
                   !.isp = @ \/ (enter /\ started > 0)]

\* flash_iface_read of buf_size bytes: what the buffer holds at the kept
\* addresses, or an I/O error
flash_iface_read(c, address, buf_size, io_fails) ==
    IF ~(address < FLASH_SIZE) \/ ~(buf_size <= FLASH_SIZE)
    THEN [c EXCEPT !.ret = "Precondition"]
    ELSE IF io_fails THEN [c EXCEPT !.ret = "Io"]
    ELSE [Log(c, [op |-> "read", addr |-> address, len |-> buf_size]) EXCEPT !.ret = "ok"]

-----------------------------------------------------------------------------
(* Update sequencer *)

\* firmware blobs handed to write_firmware: FLASH_USER_SIZE bytes that are
\* lo in the first 64 KiB block and hi in the rest, and blobs of another size
BlobBytes == {0, 165}

Blob(n, lo, hi) == [len |-> n, bytes |-> <<>>, split |-> BLOCK_SIZE, lo |-> lo, hi |-> hi]

Blobs ==
    {Blob(FLASH_USER_SIZE, 165, hi) : hi \in BlobBytes}
    \cup {Blob(FLASH_USER_SIZE - 1, 165, 165), Blob(FLASH_USER_SIZE + 1, 165, 165)}

FlagData == [len |-> Len(flag_data), bytes |-> flag_data, split |-> 0, lo |-> 0, hi |-> 0]

\* a base_addr that is the recorded bank's own image
BaseAddr_SameBank(bank) == IF bank = FLASH_BANK_USER1 THEN FLASH_USER1_ADDR ELSE FLASH_USER2_ADDR

\* guint32 base_addr = ..., guint32 flag_addr = ...
BaseAddr(bank) == IF bank = FLASH_BANK_USER1 THEN FLASH_USER2_ADDR ELSE FLASH_USER1_ADDR

FlagAddr(bank) == IF bank = FLASH_BANK_USER1 THEN FLASH_FLAG2_ADDR ELSE FLASH_FLAG1_ADDR

\* "offset += FLASH_USER_SIZE" of the erase loop
EraseLoopStep == FLASH_USER_SIZE

\* the values offset takes in the erase loop
RECURSIVE EraseOffsets(_)
EraseOffsets(offset) ==
    IF offset < FLASH_USER_SIZE THEN <<offset>> \o EraseOffsets(offset + EraseLoopStep)
    ELSE <<>>

\* pages of the image write where a failure is tried: the first page, the
\* first page of the second block, the last page
FailPages == {0, 256, 1791}

NoFail == [phase |-> "none", k |-> 0, o |-> OkOutcome]

\* where a write_firmware run fails: in the k-th block erase, in page k of
\* the image write, in the read-back, in the flag sector erase, in the flag write
FailPoints ==
    {NoFail, [phase |-> "verify", k |-> 0, o |-> OkOutcome]}
    \cup {[phase |-> "erase", k |-> k, o |-> o] : k \in 1..Len(EraseOffsets(0)), o \in EraseFailures}
    \cup {[phase |-> "write", k |-> k, o |-> o] : k \in FailPages, o \in WriteFailures}
    \cup {[phase |-> "flag_erase", k |-> 0, o |-> o] : o \in EraseFailures}
    \cup {[phase |-> "flag_write", k |-> 0, o |-> o] : o \in WriteFailures}

\* the erase loop from its k-th iteration on
RECURSIVE EraseLoop(_, _, _, _)
EraseLoop(c, base_addr, k, fp) ==
    IF k > Len(EraseOffsets(0)) THEN c
    ELSE LET o == IF fp.phase = "erase" /\ fp.k = k THEN fp.o ELSE OkOutcome
             c1 == flash_iface_erase_block(c, base_addr + EraseOffsets(0)[k], o)
         IN  IF c1.ret # "ok" THEN c1 ELSE EraseLoop(c1, base_addr, k + 1, fp)

\* a comparison that stops after the first 64 KiB block
ReadbackMatches_FirstBlock(fl, base_addr, blob) ==
    \A a \in DOMAIN fl :
        (base_addr <= a /\ a < base_addr + BLOCK_SIZE) => fl[a] = DataByte(blob, a - base_addr)

\* memcmp of the blob with the read-back buffer, on the kept bytes
ReadbackMatches(fl, base_addr, blob) ==
    \A a \in DOMAIN fl :
        (base_addr <= a /\ a < base_addr + FLASH_USER_SIZE) => fl[a] = DataByte(blob, a - base_addr)

\* a flag rewrite that programs the record before it erases the sector
FlagRewrite_WriteFirst(c, flag_addr, fp, enter) ==
    LET c1 == flash_iface_write(SetStatus(c, "DEVICE_WRITE"), flag_addr, FlagData,
                                IF fp.phase = "flag_write" THEN [page |-> 0, o |-> fp.o]
                                ELSE NoPageFails, enter)
    IN  IF c1.ret # "ok" THEN c1
        ELSE flash_iface_erase_sector(SetStatus(c1, "DEVICE_ERASE"),
                                      flag_addr - (flag_addr % SECTOR_SIZE),
                                      IF fp.phase = "flag_erase" THEN fp.o ELSE OkOutcome)

\* the flag rewrite of write_firmware
FlagRewrite(c, flag_addr, fp, enter) ==
    LET c1 == flash_iface_erase_sector(SetStatus(c, "DEVICE_ERASE"),
                                       flag_addr - (flag_addr % SECTOR_SIZE),
                                       IF fp.phase = "flag_erase" THEN fp.o ELSE OkOutcome)
    IN  IF c1.ret # "ok" THEN c1
        ELSE flash_iface_write(SetStatus(c1, "DEVICE_WRITE"), flag_addr, FlagData,
                               IF fp.phase = "flag_write" THEN [page |-> 0, o |-> fp.o]
                               ELSE NoPageFails, enter)

\* a write_firmware that takes a blob of any size
write_firmware_AnySize(c, bank, blob, fp, enter) ==
    LET base_addr == BaseAddr(bank)
        flag_addr == FlagAddr(bank)
    IN  IF FALSE THEN [c EXCEPT !.ret = "Precondition"]
        ELSE
        LET c1 == EraseLoop(SetStatus(c, "DEVICE_ERASE"), base_addr, 1, fp)
        IN  IF c1.ret # "ok" THEN c1
        ELSE
        LET c2 == flash_iface_write(SetStatus(c1, "DEVICE_WRITE"), base_addr, blob,
                                    IF fp.phase = "write" THEN [page |-> fp.k, o |-> fp.o]
                                    ELSE NoPageFails, enter)
        IN  IF c2.ret # "ok" THEN c2
        ELSE
        LET c3 == flash_iface_read(SetStatus(c2, "DEVICE_VERIFY"), base_addr,
                                   FLASH_USER_SIZE, fp.phase = "verify")
        IN  IF c3.ret # "ok" THEN [c3 EXCEPT !.verified = "io_error"]
        ELSE IF ~ReadbackMatches(c3.flash, base_addr, blob)
            THEN [c3 EXCEPT !.ret = "Write", !.verified = "mismatch"]
        ELSE FlagRewrite([c3 EXCEPT !.verified = "match"], flag_addr, fp, enter)

\* fu_realtek_mst_device_write_firmware
write_firmware(c, bank, blob, fp, enter) ==
    LET base_addr == BaseAddr(bank)
        flag_addr == FlagAddr(bank)
    IN  IF blob.len # FLASH_USER_SIZE THEN [c EXCEPT !.ret = "Precondition"]
        ELSE
        LET c1 == EraseLoop(SetStatus(c, "DEVICE_ERASE"), base_addr, 1, fp)
        IN  IF c1.ret # "ok" THEN c1
        ELSE
        LET c2 == flash_iface_write(SetStatus(c1, "DEVICE_WRITE"), base_addr, blob,
                                    IF fp.phase = "write" THEN [page |-> fp.k, o |-> fp.o]
                                    ELSE NoPageFails, enter)
        IN  IF c2.ret # "ok" THEN c2
        ELSE
        LET c3 == flash_iface_read(SetStatus(c2, "DEVICE_VERIFY"), base_addr,
                                   FLASH_USER_SIZE, fp.phase = "verify")
        IN  IF c3.ret # "ok" THEN [c3 EXCEPT !.verified = "io_error"]
        ELSE IF ~ReadbackMatches(c3.flash, base_addr, blob)
            THEN [c3 EXCEPT !.ret = "Write", !.verified = "mismatch"]
        ELSE FlagRewrite([c3 EXCEPT !.verified = "match"], flag_addr, fp, enter)

NoRun ==
    [called |-> FALSE, bank |-> FLASH_BANK_INVALID, blob |-> Blob(0, 0, 0), ops |-> <<>>,
     statuses |-> <<>>, verified |-> "not_reached", ret |-> "none",
     writable |-> FALSE, before |-> <<>>, detached |-> FALSE]

WriteFirmware ==
    /\ ncalls < MaxCalls
    /\ \E blob \in Blobs, fp \in FailPoints, enter \in BOOLEAN :
        \* a run that issues no transfer has no transfer that fails
        /\ blob.len # FLASH_USER_SIZE => fp = NoFail
        /\ enter => ~isp
        /\ LET c0 == [flash |-> flash, isp |-> isp, gpio88_value |-> gpio88_value,
                      ops |-> <<>>, statuses |-> <<>>, ret |-> "ok",
                      verified |-> "not_reached"]
           IN  \E c \in {write_firmware(c0, active_bank, blob, fp, enter)} :
               /\ flash' = c.flash
               /\ isp' = c.isp
               /\ ret' = IF c.ret = "ok" THEN "TRUE" ELSE c.ret
               /\ status' = IF c.statuses = <<>> THEN status
                             ELSE c.statuses[Len(c.statuses)]
               /\ run' = [called |-> TRUE, bank |-> active_bank, blob |-> blob,
                          ops |-> c.ops, statuses |-> c.statuses, verified |-> c.verified,
                          ret |-> IF c.ret = "ok" THEN "TRUE" ELSE c.ret,
                          writable |-> Writable(c0), before |-> flash,
                          detached |-> detached]
    /\ last_call' = "write_firmware"
    /\ ncalls' = ncalls + 1
    /\ accesses' = <<>>
    /\ prev' = NoPrev
    /\ UNCHANGED <<active_bank, dev_flags, version, last_info, last_response, detached, tracing, io_run, poll>>
    /\ UNCHANGED <<dp_aux_dev_name, quirk_kv, xfer, gpio_run, spi>>
    /\ UNCHANGED <<resp, running_bank, gpio88_config, gpio88_value, mcu_clock, flash0>>

-----------------------------------------------------------------------------
(* Register scripts *)

\* one step of a script: a register access (write, write_multi, read, poll,
\* read_data), a report to the host (set_status, add_flag, remove_flag), a
\* sleep, or the return of an error (fail).  val: the byte written, or the
\* byte the chip answers to a read; stage: the transfer of the hook the step
\* is part of; res: how the step ended once it was issued; len, off: the
\* bytes a burst carries and where they lie in the caller's buffer
Step(op, reg, val, what, stage) ==
    [op |-> op, reg |-> reg, val |-> val, mask |-> 0, expected |-> 0, timeout |-> 0,
     len |-> 0, off |-> 0, what |-> what, stage |-> stage, ignore_error |-> FALSE,
     res |-> "ok"]

mst_write_register(address, value, stage) == Step("write", address, value % 256, "", stage)

mst_write_register_multi(address, data_off, count, stage) ==
    [Step("write_multi", address, 0, "", stage) EXCEPT !.len = count, !.off = data_off]

\* fu_udev_device_pread_full of read_len bytes into buf + bytes_read
pread_full(bytes_read, read_len, stage) ==
    [Step("read_data", REG_WRITE_FIFO, 0, "", stage) EXCEPT !.len = read_len,
                                                            !.off = bytes_read]

mst_read_register(address, value, stage) == Step("read", address, value, "", stage)

mst_poll_register(address, mask, expected, timeout_seconds, stage) ==
    [Step("poll", address, 0, "", stage) EXCEPT !.mask = mask, !.expected = expected,
                                                !.timeout = timeout_seconds]

\* an indirect address given low byte first
mst_set_indirect_address_LoFirst(address, stage) ==
    <<mst_write_register(REG_INDIRECT_LO, 159, stage),
      mst_write_register(REG_INDIRECT_LO, address, stage),
      mst_write_register(REG_INDIRECT_HI, address \div 256, stage)>>

mst_set_indirect_address(address, stage) ==
    <<mst_write_register(REG_INDIRECT_LO, 159, stage),
      mst_write_register(REG_INDIRECT_HI, address \div 256, stage),
      mst_write_register(REG_INDIRECT_LO, address, stage)>>

mst_read_register_indirect(address, value, stage) ==
    mst_set_indirect_address(address, stage)
    \o <<mst_read_register(REG_INDIRECT_HI, value, stage)>>

mst_write_register_indirect(address, value, stage_addr, stage_data) ==
    mst_set_indirect_address(address, stage_addr)
    \o <<mst_write_register(REG_INDIRECT_HI, value, stage_data)>>

fu_device_set_status(st) == Step("set_status", 0, 0, st, "host")

fu_device_add_flag(flag) == Step("add_flag", 0, 0, flag, "host")

fu_device_remove_flag(flag) == Step("remove_flag", 0, 0, flag, "host")

g_usleep(seconds) == [Step("sleep", 0, 0, "", "host") EXCEPT !.timeout = seconds]

\* return of an error that is not the error of a transfer
ReturnError(kind) == Step("fail", 0, 0, kind, "host")

\* the accesses of mst_set_gpio88 on a chip whose registers hold g
Gpio88Script(g, level) ==
    mst_read_register_indirect(REG_GPIO88_CONFIG, g.config, "config_read")
    \o mst_write_register_indirect(REG_GPIO88_CONFIG, BitOr(BitAnd(g.config, 240), 1),
                                   "config_write_addr", "config_write_data")
    \o mst_read_register_indirect(REG_GPIO88_VALUE, g.value, "value_read")
    \o mst_write_register_indirect(REG_GPIO88_VALUE,
                                   BitOr(BitAnd(g.value, 254), IF level THEN 1 ELSE 0),
                                   "value_write_addr", "value_write_data")

\* a detach that releases write protect before it has entered ISP mode
DetachScript_GpioFirst(g) ==
    Gpio88Script(g, TRUE)
    \o <<fu_device_set_status("DEVICE_RESTART"),
         mst_write_register(REG_MCU_MODE, MCU_MODE_ISP, "mode_write"),
         mst_poll_register(REG_MCU_MODE, MCU_MODE_ISP, MCU_MODE_ISP, 60, "poll_read")>>
    \o mst_write_register_indirect(REG_MCU_CLOCK, MCU_CLOCK_FAST, "clock_addr", "clock_data")
    \o <<fu_device_add_flag("IS_BOOTLOADER"), fu_device_set_status("IDLE")>>

\* a detach that speeds the MCU clock up before it has seen the ISP bit
DetachScript_ClockFirst(g) ==
    <<fu_device_set_status("DEVICE_RESTART"),
      mst_write_register(REG_MCU_MODE, MCU_MODE_ISP, "mode_write")>>
    \o mst_write_register_indirect(REG_MCU_CLOCK, MCU_CLOCK_FAST, "clock_addr", "clock_data")
    \o <<mst_poll_register(REG_MCU_MODE, MCU_MODE_ISP, MCU_MODE_ISP, 60, "poll_read"),
         fu_device_add_flag("IS_BOOTLOADER"), fu_device_set_status("IDLE")>>
    \o Gpio88Script(g, TRUE)

\* the steps of fu_realtek_mst_device_detach
DetachScript(g) ==
    <<fu_device_set_status("DEVICE_RESTART"),
      mst_write_register(REG_MCU_MODE, MCU_MODE_ISP, "mode_write"),
      mst_poll_register(REG_MCU_MODE, MCU_MODE_ISP, MCU_MODE_ISP, 60, "poll_read")>>
    \o mst_write_register_indirect(REG_MCU_CLOCK, MCU_CLOCK_FAST, "clock_addr", "clock_data")
    \o <<fu_device_add_flag("IS_BOOTLOADER"), fu_device_set_status("IDLE")>>
    \o Gpio88Script(g, TRUE)

\* an attach that returns the error of the reset request
AttachScript_NoSwallow(g, isp_read, isp_reread) ==
    Gpio88Script(g, FALSE)
    \o <<mst_read_register(REG_MCU_MODE, IF isp_read THEN MCU_MODE_ISP ELSE 0, "mode_read")>>
    \o (IF isp_read
        THEN <<fu_device_set_status("DEVICE_RESTART"),
               mst_read_register(REG_RESET, 0, "ee_read"),
               mst_write_register(REG_RESET, BitOr(0, RESET_REQUEST), "ee_write"),
               g_usleep(1),
               mst_read_register(REG_MCU_MODE, IF isp_reread THEN MCU_MODE_ISP ELSE 0,
                                 "mode_reread")>>
             \o (IF isp_reread
                 THEN <<fu_device_add_flag("NEEDS_SHUTDOWN"), ReturnError("NeedsUserAction")>>
                 ELSE <<>>)
        ELSE <<>>)
    \o <<fu_device_remove_flag("IS_BOOTLOADER"), fu_device_set_status("IDLE")>>

\* an attach that asks for a reset whatever MCU_MODE reads
AttachScript_AlwaysResets(g, isp_read, isp_reread) ==
    Gpio88Script(g, FALSE)
    \o <<mst_read_register(REG_MCU_MODE, IF isp_read THEN MCU_MODE_ISP ELSE 0, "mode_read"),
         fu_device_set_status("DEVICE_RESTART"),
         mst_read_register(REG_RESET, 0, "ee_read"),
         [mst_write_register(REG_RESET, BitOr(0, RESET_REQUEST), "ee_write")
              EXCEPT !.ignore_error = TRUE],
         g_usleep(1),
         mst_read_register(REG_MCU_MODE, IF isp_reread THEN MCU_MODE_ISP ELSE 0,
                           "mode_reread")>>
    \o (IF isp_reread
        THEN <<fu_device_add_flag("NEEDS_SHUTDOWN"), ReturnError("NeedsUserAction")>>
        ELSE <<>>)
    \o <<fu_device_remove_flag("IS_BOOTLOADER"), fu_device_set_status("IDLE")>>

\* an attach that asks for the reset first and restores write protect last
AttachScript_GpioLast(g, isp_read, isp_reread) ==
    <<mst_read_register(REG_MCU_MODE, IF isp_read THEN MCU_MODE_ISP ELSE 0, "mode_read")>>
    \o (IF isp_read
        THEN <<fu_device_set_status("DEVICE_RESTART"),
               mst_read_register(REG_RESET, 0, "ee_read"),
               [mst_write_register(REG_RESET, BitOr(0, RESET_REQUEST), "ee_write")
                    EXCEPT !.ignore_error = TRUE],
               g_usleep(1),
               mst_read_register(REG_MCU_MODE, IF isp_reread THEN MCU_MODE_ISP ELSE 0,
                                 "mode_reread")>>
             \o (IF isp_reread
                 THEN <<fu_device_add_flag("NEEDS_SHUTDOWN"), ReturnError("NeedsUserAction")>>
                 ELSE <<>>)
        ELSE <<>>)
    \o <<fu_device_remove_flag("IS_BOOTLOADER"), fu_device_set_status("IDLE")>>
    \o Gpio88Script(g, FALSE)

\* the steps of fu_realtek_mst_device_attach on a chip whose MCU_MODE reads
\* with the ISP bit isp_read, and isp_reread after the reset request
AttachScript(g, isp_read, isp_reread) ==
    Gpio88Script(g, FALSE)
    \o <<mst_read_register(REG_MCU_MODE, IF isp_read THEN MCU_MODE_ISP ELSE 0, "mode_read")>>
    \o (IF isp_read
        THEN <<fu_device_set_status("DEVICE_RESTART"),
               mst_read_register(REG_RESET, 0, "ee_read"),
               [mst_write_register(REG_RESET, BitOr(0, RESET_REQUEST), "ee_write")
                    EXCEPT !.ignore_error = TRUE],
               g_usleep(1),
               mst_read_register(REG_MCU_MODE, IF isp_reread THEN MCU_MODE_ISP ELSE 0,
                                 "mode_reread")>>
             \o (IF isp_reread
                 THEN <<fu_device_add_flag("NEEDS_SHUTDOWN"), ReturnError("NeedsUserAction")>>
                 ELSE <<>>)
        ELSE <<>>)
    \o <<fu_device_remove_flag("IS_BOOTLOADER"), fu_device_set_status("IDLE")>>

\* the address registers written low byte first
CmdAddr_LoFirst(hi, mid, lo, stage) ==
    <<mst_write_register(REG_CMD_ADDR_LO, lo, stage),
      mst_write_register(REG_CMD_ADDR_MID, mid, stage),
      mst_write_register(REG_CMD_ADDR_HI, hi, stage)>>

\* the three address registers of a flash command
CmdAddr(hi, mid, lo, stage) ==
    <<mst_write_register(REG_CMD_ADDR_HI, hi, stage),
      mst_write_register(REG_CMD_ADDR_MID, mid, stage),
      mst_write_register(REG_CMD_ADDR_LO, lo, stage)>>

\* a read that starts at the address itself
ReadSetupScript_NoBackstep(address, buf_size) ==
    IF ~(address < FLASH_SIZE) \/ ~(buf_size <= FLASH_SIZE) THEN <<ReturnError("Precondition")>>
    ELSE LET a == address % 16777216
         IN  CmdAddr(a \div 65536, a \div 256, a, "addr")
             \o <<mst_write_register(REG_READ_OPCODE, CMD_OPCODE_READ, "opcode"),
                  mst_read_register(REG_WRITE_FIFO, 0, "discard")>>

\* the steps of flash_iface_read ahead of its loop: the read starts one byte
\* ahead and the first byte read is dropped
ReadSetupScript(address, buf_size) ==
    IF ~(address < FLASH_SIZE) \/ ~(buf_size <= FLASH_SIZE) THEN <<ReturnError("Precondition")>>
    ELSE LET a == (address - 1) % 16777216
         IN  CmdAddr(a \div 65536, a \div 256, a, "addr")
             \o <<mst_write_register(REG_READ_OPCODE, CMD_OPCODE_READ, "opcode"),
                  mst_read_register(REG_WRITE_FIFO, 0, "discard")>>

\* the steps of flash_iface_read, its loop of reads taken as one step
ReadScript(address, buf_size) ==
    ReadSetupScript(address, buf_size)
    \o (IF address < FLASH_SIZE /\ buf_size <= FLASH_SIZE /\ buf_size > 0
        THEN <<pread_full(0, buf_size, "data")>>
        ELSE <<>>)

\* "gsize read_len = buf_size - bytes_read; if (read_len > 256) read_len = 256;"
\* as one transaction that reads all that is left
ReadLen_AllAtOnce(bytes_read, buf_size) == buf_size - bytes_read

\* "gsize read_len = buf_size - bytes_read; if (read_len > 256) read_len = 256;"
ReadLen(bytes_read, buf_size) ==
    IF buf_size - bytes_read > PAGE_SIZE THEN PAGE_SIZE ELSE buf_size - bytes_read

\* a sector erase that takes any address
EraseSectorScript_NoCheck(address) ==
    CmdAddr(address \div 65536, address \div 256, address, "addr")
    \o <<mst_write_register(REG_CMD_ATTR, 184, "attr"),
         mst_write_register(REG_ERASE_OPCODE, CMD_OPCODE_ERASE_SECTOR, "opcode"),
         mst_write_register(REG_CMD_ATTR, BitOr(184, CMD_ERASE_BUSY), "start"),
         mst_poll_register(REG_CMD_ATTR, CMD_ERASE_BUSY, 0, 10, "poll")>>

\* the steps of flash_iface_erase_sector
EraseSectorScript(address) ==
    IF address % SECTOR_SIZE # 0 THEN <<ReturnError("Precondition")>>
    ELSE CmdAddr(address \div 65536, address \div 256, address, "addr")
         \o <<mst_write_register(REG_CMD_ATTR, 184, "attr"),
              mst_write_register(REG_ERASE_OPCODE, CMD_OPCODE_ERASE_SECTOR, "opcode"),
              mst_write_register(REG_CMD_ATTR, BitOr(184, CMD_ERASE_BUSY), "start"),
              mst_poll_register(REG_CMD_ATTR, CMD_ERASE_BUSY, 0, 10, "poll")>>

\* a block erase that is given the opcode of the sector erase
EraseBlockScript_SectorOpcode(address) ==
    IF address % BLOCK_SIZE # 0 THEN <<ReturnError("Precondition")>>
    ELSE CmdAddr(address \div 65536, 0, 0, "addr")
         \o <<mst_write_register(REG_CMD_ATTR, 184, "attr"),
              mst_write_register(REG_ERASE_OPCODE, CMD_OPCODE_ERASE_SECTOR, "opcode"),
              mst_write_register(REG_CMD_ATTR, BitOr(184, CMD_ERASE_BUSY), "start"),
              mst_poll_register(REG_CMD_ATTR, CMD_ERASE_BUSY, 0, 10, "poll")>>

\* the steps of flash_iface_erase_block
EraseBlockScript(address) ==
    IF address % BLOCK_SIZE # 0 THEN <<ReturnError("Precondition")>>
    ELSE CmdAddr(address \div 65536, 0, 0, "addr")
         \o <<mst_write_register(REG_CMD_ATTR, 184, "attr"),
              mst_write_register(REG_ERASE_OPCODE, CMD_OPCODE_ERASE_BLOCK, "opcode"),
              mst_write_register(REG_CMD_ATTR, BitOr(184, CMD_ERASE_BUSY), "start"),
              mst_poll_register(REG_CMD_ATTR, CMD_ERASE_BUSY, 0, 10, "poll")>>

\* "gsize chunk_size = remaining_size > 256 ? 256 : remaining_size;" as a
\* page that takes all that remains
ChunkSize_NoCap(remaining_size) == remaining_size

\* "gsize chunk_size = remaining_size > 256 ? 256 : remaining_size;"
ChunkSize(remaining_size) == IF remaining_size > PAGE_SIZE THEN PAGE_SIZE ELSE remaining_size

\* a page whose data is put in the FIFO before the buffer is known to be empty
PageScript_FifoFirst(address, chunk_size, data_off) ==
    <<mst_write_register(REG_WRITE_OPCODE, CMD_OPCODE_WRITE, "opcode"),
      mst_write_register(REG_WRITE_LEN, chunk_size - 1, "len")>>
    \o CmdAddr(address \div 65536, address \div 256, address, "addr")
    \o <<mst_write_register_multi(REG_WRITE_FIFO, data_off, chunk_size, "fifo"),
         mst_poll_register(REG_MCU_MODE, MCU_MODE_WRITE_BUF, 0, 10, "drain"),
         mst_write_register(REG_MCU_MODE, BitOr(MCU_MODE_ISP, MCU_MODE_WRITE_BUSY), "start"),
         mst_poll_register(REG_MCU_MODE, MCU_MODE_WRITE_BUSY, 0, 10, "poll")>>

\* a page that is started with WRITE_BUSY alone
PageScript_StartWithoutIsp(address, chunk_size, data_off) ==
    <<mst_write_register(REG_WRITE_OPCODE, CMD_OPCODE_WRITE, "opcode"),
      mst_write_register(REG_WRITE_LEN, chunk_size - 1, "len")>>
    \o CmdAddr(address \div 65536, address \div 256, address, "addr")
    \o <<mst_poll_register(REG_MCU_MODE, MCU_MODE_WRITE_BUF, 0, 10, "drain"),
         mst_write_register_multi(REG_WRITE_FIFO, data_off, chunk_size, "fifo"),
         mst_write_register(REG_MCU_MODE, MCU_MODE_WRITE_BUSY, "start"),
         mst_poll_register(REG_MCU_MODE, MCU_MODE_WRITE_BUSY, 0, 10, "poll")>>

\* the steps of one pass of the loop of flash_iface_write: a page of
\* chunk_size bytes at address, taken from data_bytes = data + data_off
PageScript(address, chunk_size, data_off) ==
    <<mst_write_register(REG_WRITE_OPCODE, CMD_OPCODE_WRITE, "opcode"),
      mst_write_register(REG_WRITE_LEN, chunk_size - 1, "len")>>
    \o CmdAddr(address \div 65536, address \div 256, address, "addr")
    \o <<mst_poll_register(REG_MCU_MODE, MCU_MODE_WRITE_BUF, 0, 10, "drain"),
         mst_write_register_multi(REG_WRITE_FIFO, data_off, chunk_size, "fifo"),
         mst_write_register(REG_MCU_MODE, BitOr(MCU_MODE_ISP, MCU_MODE_WRITE_BUSY), "start"),
         mst_poll_register(REG_MCU_MODE, MCU_MODE_WRITE_BUSY, 0, 10, "poll")>>

\* a read_firmware that reads USER1 when the session has no user bank
ReadFirmwareScript_AnyBank(bank) ==
    IF bank = FLASH_BANK_USER2 THEN ReadScript(FLASH_USER2_ADDR, FLASH_USER_SIZE)
    ELSE ReadScript(FLASH_USER1_ADDR, FLASH_USER_SIZE)

\* the steps of fu_realtek_mst_device_read_firmware
ReadFirmwareScript(bank) ==
    IF bank = FLASH_BANK_USER1 THEN ReadScript(FLASH_USER1_ADDR, FLASH_USER_SIZE)
    ELSE IF bank = FLASH_BANK_USER2 THEN ReadScript(FLASH_USER2_ADDR, FLASH_USER_SIZE)
    ELSE <<ReturnError("NotSupported")>>

\* the transfers that fail while a script runs: steps whose transfer gets
\* an I/O error, polls that reach their deadline
NoFailure == [fails |-> {}, timeouts |-> {}]

IsAccess(step) == step.op \in {"write", "write_multi", "read", "poll", "read_data"}

\* a script that goes on after a transfer failed
RECURSIVE RunScript_KeepsGoing(_, _, _)
RunScript_KeepsGoing(script, i, plan) ==
    IF i > Len(script) THEN [trace |-> <<>>, ret |-> "ok"]
    ELSE IF script[i].op = "fail" THEN [trace |-> <<>>, ret |-> script[i].what]
    ELSE LET res == IF i \in plan.fails THEN "Io"
                    ELSE IF i \in plan.timeouts THEN "Timeout" ELSE "ok"
             rest == RunScript_KeepsGoing(script, i + 1, plan)
         IN  [trace |-> <<[script[i] EXCEPT !.res = res]>> \o rest.trace, ret |-> rest.ret]

\* the steps of a script that are issued, from step i on, and what the
\* script returns: "if (!...) return FALSE" after every transfer, but for
\* the one whose error is ignored
RECURSIVE RunScript(_, _, _)
RunScript(script, i, plan) ==
    IF i > Len(script) THEN [trace |-> <<>>, ret |-> "ok"]
    ELSE IF script[i].op = "fail" THEN [trace |-> <<>>, ret |-> script[i].what]
    ELSE LET res == IF i \in plan.fails THEN "Io"
                    ELSE IF i \in plan.timeouts THEN "Timeout" ELSE "ok"
         IN  IF res # "ok" /\ ~script[i].ignore_error
             THEN [trace |-> <<[script[i] EXCEPT !.res = res]>>, ret |-> res]
             ELSE LET rest == RunScript(script, i + 1, plan)
                  IN  [trace |-> <<[script[i] EXCEPT !.res = res]>> \o rest.trace,
                       ret |-> rest.ret]

\* the first step of a stage (0: the script has none)
FirstOf(script, stage) ==
    IF \E i \in 1..Len(script) : script[i].stage = stage
    THEN CHOOSE i \in 1..Len(script) :
            /\ script[i].stage = stage
            /\ \A j \in 1..(i - 1) : script[j].stage # stage
    ELSE 0

\* the failure of the first transfer of a stage
FailsAt(script, stage) ==
    IF stage = "poll_timeout" THEN [fails |-> {}, timeouts |-> {FirstOf(script, "poll_read")}]
    ELSE [fails |-> {FirstOf(script, stage)} \ {0}, timeouts |-> {}]

-----------------------------------------------------------------------------
(* GPIO-88 and the lifecycle hooks *)

\* the transfer of mst_set_gpio88 that fails: the read of GPIO88_CONFIG, the
\* address or the data of its write, the same for GPIO88_VALUE
GpioStages == {"config_read", "config_write_addr", "config_write_data",
               "value_read", "value_write_addr", "value_write_data"}

\* a GPIO-88 that is made an output and never driven
mst_set_gpio88_ConfigOnly(g, level, stage, took) ==
    LET config == BitOr(BitAnd(g.config, 240), 1)
    IN  CASE stage \in {"config_read", "config_write_addr"} ->
                [config |-> g.config, value |-> g.value, ret |-> "Io"]
          [] stage = "config_write_data" ->
                [config |-> IF took THEN config ELSE g.config, value |-> g.value, ret |-> "Io"]
          [] stage \in {"value_read", "value_write_addr", "value_write_data"} ->
                [config |-> config, value |-> g.value, ret |-> "Io"]
          [] OTHER ->
                [config |-> config, value |-> g.value, ret |-> "ok"]

\* a GPIO-88 that is always driven high
mst_set_gpio88_High(g, level, stage, took) ==
    LET config == BitOr(BitAnd(g.config, 240), 1)
        value == BitOr(BitAnd(g.value, 254), 1)
    IN  CASE stage \in {"config_read", "config_write_addr"} ->
                [config |-> g.config, value |-> g.value, ret |-> "Io"]
          [] stage = "config_write_data" ->
                [config |-> IF took THEN config ELSE g.config, value |-> g.value, ret |-> "Io"]
          [] stage \in {"value_read", "value_write_addr"} ->
                [config |-> config, value |-> g.value, ret |-> "Io"]
          [] stage = "value_write_data" ->
                [config |-> config, value |-> IF took THEN value ELSE g.value, ret |-> "Io"]
          [] OTHER ->
                [config |-> config, value |-> value, ret |-> "ok"]

\* a GPIO-88 whose registers are written whole
mst_set_gpio88_WholeByte(g, level, stage, took) ==
    LET config == 1
        value == IF level THEN 1 ELSE 0
    IN  CASE stage \in {"config_read", "config_write_addr"} ->
                [config |-> g.config, value |-> g.value, ret |-> "Io"]
          [] stage = "config_write_data" ->
                [config |-> IF took THEN config ELSE g.config, value |-> g.value, ret |-> "Io"]
          [] stage \in {"value_read", "value_write_addr"} ->
                [config |-> config, value |-> g.value, ret |-> "Io"]
          [] stage = "value_write_data" ->
                [config |-> config, value |-> IF took THEN value ELSE g.value, ret |-> "Io"]
          [] OTHER ->
                [config |-> config, value |-> value, ret |-> "ok"]

\* mst_set_gpio88 on g = [config, value]; took: the chip acted on the data
\* write that failed
mst_set_gpio88(g, level, stage, took) ==
    LET config == BitOr(BitAnd(g.config, 240), 1)
        value == BitOr(BitAnd(g.value, 254), IF level THEN 1 ELSE 0)
    IN  CASE stage \in {"config_read", "config_write_addr"} ->
                [config |-> g.config, value |-> g.value, ret |-> "Io"]
          [] stage = "config_write_data" ->
                [config |-> IF took THEN config ELSE g.config, value |-> g.value, ret |-> "Io"]
          [] stage \in {"value_read", "value_write_addr"} ->
                [config |-> config, value |-> g.value, ret |-> "Io"]
          [] stage = "value_write_data" ->
                [config |-> config, value |-> IF took THEN value ELSE g.value, ret |-> "Io"]
          [] OTHER ->
                [config |-> config, value |-> value, ret |-> "ok"]

\* the transfer of detach that fails, or the poll that times out
DetachStages ==
    {"mode_write", "poll_read", "poll_timeout", "clock_addr", "clock_data", "none"}
    \cup GpioStages

\* fu_realtek_mst_device_detach.  enters: the chip sets its ISP bit on the
\* MCU_MODE write; took: the chip acted on the write that failed
Detach ==
    /\ ncalls < MaxCalls
    /\ \E stage \in DetachStages, enters \in BOOLEAN, took \in BOOLEAN :
        /\ stage = "mode_write" => (enters <=> took)
        /\ took => stage \in {"mode_write", "clock_data", "config_write_data", "value_write_data"}
        /\ enters => ~isp
        /\ stage = "poll_timeout" => ~(isp \/ enters)
        /\ stage \notin {"mode_write", "poll_read", "poll_timeout"} => (isp \/ enters)
        /\ \E isp1 \in {isp \/ enters},
              g \in {mst_set_gpio88([config |-> gpio88_config, value |-> gpio88_value],
                                    TRUE, stage, took)} :
            /\ ncalls' = ncalls + 1
            /\ last_call' = "detach"
            /\ isp' = isp1
            /\ accesses' = IF tracing
                           THEN LET script == DetachScript([config |-> gpio88_config,
                                                            value |-> gpio88_value])
                                IN  RunScript(script, 1, FailsAt(script, stage)).trace
                           ELSE <<>>
            /\ prev' = NoPrev
            /\ detached' = (detached \/ stage = "none")
            /\ IF stage \in {"mode_write", "poll_read", "poll_timeout", "clock_addr", "clock_data"}
               THEN /\ ret' = IF stage = "poll_timeout" THEN "Timeout" ELSE "Io"
                    /\ status' = "DEVICE_RESTART"
                    /\ mcu_clock' = IF stage = "clock_data" /\ took THEN MCU_CLOCK_FAST ELSE mcu_clock
                    /\ UNCHANGED <<dev_flags, gpio88_config, gpio88_value>>
               ELSE /\ mcu_clock' = MCU_CLOCK_FAST
                    /\ dev_flags' = dev_flags \cup {"IS_BOOTLOADER"}
                    /\ status' = "IDLE"
                    /\ gpio88_config' = g.config
                    /\ gpio88_value' = g.value
                    /\ ret' = IF g.ret = "ok" THEN "TRUE" ELSE g.ret
            /\ UNCHANGED <<active_bank, version, last_info, last_response, run, tracing, io_run, poll>>
            /\ UNCHANGED <<dp_aux_dev_name, quirk_kv, xfer, gpio_run, spi>>
            /\ UNCHANGED <<resp, running_bank, flash, flash0>>

\* the transfer of attach that fails
AttachStages == GpioStages \cup {"mode_read", "ee_read", "mode_reread", "none"}

\* an attach that drops IS_BOOTLOADER and reports IDLE although the chip
\* did not reset
AttachResult_AlwaysLeaves(stage, isp_reread, st, flags) ==
    IF stage \in GpioStages \/ stage = "mode_read"
    THEN [ret |-> "Io", status |-> st, dev_flags |-> flags]
    ELSE IF stage \in {"ee_read", "mode_reread"}
    THEN [ret |-> "Io", status |-> "DEVICE_RESTART", dev_flags |-> flags]
    ELSE IF isp_reread
    THEN [ret |-> "NeedsUserAction", status |-> "IDLE",
          dev_flags |-> (flags \cup {"NEEDS_SHUTDOWN"}) \ {"IS_BOOTLOADER"}]
    ELSE [ret |-> "TRUE", status |-> "IDLE", dev_flags |-> flags \ {"IS_BOOTLOADER"}]

\* what attach returns and reports to the host: the transfer of the stage
\* failed, or the chip stayed in ISP mode (isp_reread), or it left it
AttachResult(stage, isp_reread, st, flags) ==
    IF stage \in GpioStages \/ stage = "mode_read"
    THEN [ret |-> "Io", status |-> st, dev_flags |-> flags]
    ELSE IF stage \in {"ee_read", "mode_reread"}
    THEN [ret |-> "Io", status |-> "DEVICE_RESTART", dev_flags |-> flags]
    ELSE IF isp_reread
    THEN [ret |-> "NeedsUserAction", status |-> "DEVICE_RESTART",
          dev_flags |-> flags \cup {"NEEDS_SHUTDOWN"}]
    ELSE [ret |-> "TRUE", status |-> "IDLE", dev_flags |-> flags \ {"IS_BOOTLOADER"}]

\* fu_realtek_mst_device_attach.  resets: the chip leaves ISP mode on the
\* reset request written to register 0xEE; ee_fails: that write fails (its
\* result is ignored)
Attach ==
    /\ ncalls < MaxCalls
    /\ \E stage \in AttachStages, resets \in BOOLEAN, took \in BOOLEAN, ee_fails \in BOOLEAN :
        /\ stage \in {"ee_read", "mode_reread"} => isp
        /\ took => stage \in {"config_write_data", "value_write_data"}
        /\ ~(isp /\ stage \in {"mode_reread", "none"}) => (~resets /\ ~ee_fails)
        /\ \E g \in {mst_set_gpio88([config |-> gpio88_config, value |-> gpio88_value],
                                    FALSE, stage, took)},
              requested \in {isp /\ stage \in {"mode_reread", "none"}} :
           \E isp1 \in {isp /\ ~(requested /\ resets)} :
            /\ ncalls' = ncalls + 1
            /\ last_call' = "attach"
            /\ gpio88_config' = g.config
            /\ gpio88_value' = g.value
            /\ isp' = isp1
            /\ accesses' = IF tracing
                           THEN LET script == AttachScript([config |-> gpio88_config,
                                                            value |-> gpio88_value], isp, isp1)
                                    plan == FailsAt(script, stage)
                                IN  RunScript(script, 1,
                                        [plan EXCEPT !.fails =
                                            @ \cup (IF ee_fails
                                                    THEN {FirstOf(script, "ee_write")}
                                                    ELSE {})]).trace
                           ELSE <<>>
            /\ prev' = [detach_ok |-> last_call = "detach" /\ ret = "TRUE", same |-> FALSE]
            /\ detached' = FALSE
            /\ \E end \in {AttachResult(stage, isp1, status, dev_flags)} :
                /\ ret' = end.ret
                /\ status' = end.status
                /\ dev_flags' = end.dev_flags
            /\ UNCHANGED <<active_bank, version, last_info, last_response, run, tracing, io_run, poll>>
            /\ UNCHANGED <<dp_aux_dev_name, quirk_kv, xfer, gpio_run, spi>>
            /\ UNCHANGED <<resp, running_bank, mcu_clock, flash, flash0>>

\* the transfer of read_firmware that fails
ReadStages == {"addr", "opcode", "discard", "data", "none"}

\* fu_realtek_mst_device_read_firmware
ReadFirmware ==
    /\ ncalls < MaxCalls
    /\ \E stage \in ReadStages :
        \E script \in {ReadFirmwareScript(active_bank)} :
        \E r \in {RunScript(script, 1, FailsAt(script, stage))} :
            /\ stage # "none" => FirstOf(script, stage) # 0
            /\ ncalls' = ncalls + 1
            /\ last_call' = "read_firmware"
            /\ accesses' = r.trace
            /\ ret' = IF r.ret = "ok" THEN "TRUE" ELSE r.ret
            /\ prev' = NoPrev
            /\ UNCHANGED <<active_bank, dev_flags, version, status, last_info, last_response,
                           run, detached, tracing, io_run, poll>>
            /\ UNCHANGED <<dp_aux_dev_name, quirk_kv, xfer, gpio_run, spi>>
            /\ UNCHANGED chipVars

-----------------------------------------------------------------------------
(* Specifications *)

\* fu_realtek_mst_device_init, and a chip running its firmware
(***************************************************************************)
(* Register scripts run alone, and mst_poll_register read by read          *)
(***************************************************************************)

\* mst_poll_register against a clock that counts sleeps: the timeouts tried,
\* and the longest a g_usleep or a transfer takes
MaxTimeout == 2
MaxSleep == 2
MaxTransfer == 1

NoIo == [called |-> FALSE, name |-> "none", address |-> 0, size |-> 0, caller |-> "none",
         script |-> <<>>, plan |-> NoFailure, trace |-> <<>>, ret |-> "none"]

NoPoll == [pc |-> "idle", timeout |-> 0, deadline |-> 0, now |-> 0, clock |-> 0,
           reads |-> <<>>, ret |-> "none"]

\* GPIO-88 before and after a detach
Gpio88Samples == {[config |-> 34, value |-> 128], [config |-> 33, value |-> 129]}

\* a call of a script: its name, the address and the size it is given, who
\* calls it, and its steps
IoCall(name, address, size, caller, script) ==
    [name |-> name, address |-> address, size |-> size, caller |-> caller,
     script |-> script]

\* addresses a caller may hand to flash_iface_erase_sector: sector starts,
\* the flag addresses themselves and addresses off a sector start by a byte
SectorSamples ==
    {0, SECTOR_SIZE, FlagSector(FLASH_FLAG1_ADDR), FlagSector(FLASH_FLAG2_ADDR),
     FLASH_FLAG1_ADDR, FLASH_FLAG2_ADDR, 1, SECTOR_SIZE - 1, FLASH_USER1_ADDR + 256}

\* addresses a caller may hand to flash_iface_erase_block: block starts,
\* sector starts inside a block and addresses off a block start by a byte
BlockSamples ==
    {0, FLASH_USER1_ADDR, FLASH_USER2_ADDR, FLASH_USER1_ADDR + SECTOR_SIZE,
     FLASH_USER2_ADDR + 1, BLOCK_SIZE - 1, FlagSector(FLASH_FLAG1_ADDR)}

\* the banks write_firmware may find active
BankSamples == {FLASH_BANK_BOOT, FLASH_BANK_USER1, FLASH_BANK_USER2}

\* the calls of the erase functions: on sample addresses, and on the
\* addresses write_firmware computes for each bank it may find active
EraseCalls ==
    {IoCall("erase_sector", a, SECTOR_SIZE, "sample", EraseSectorScript(a)) :
        a \in SectorSamples}
    \cup {IoCall("erase_block", a, BLOCK_SIZE, "sample", EraseBlockScript(a)) :
        a \in BlockSamples}
    \cup {IoCall("erase_block", BaseAddr(b) + EraseOffsets(0)[k], BLOCK_SIZE,
                 "write_firmware", EraseBlockScript(BaseAddr(b) + EraseOffsets(0)[k])) :
        b \in BankSamples, k \in 1..Len(EraseOffsets(0))}
    \cup {IoCall("erase_sector", FlagSector(FlagAddr(b)), SECTOR_SIZE, "write_firmware",
                 EraseSectorScript(FlagSector(FlagAddr(b)))) :
        b \in BankSamples}

\* the scripts of the flash interface, of the lifecycle hooks and of the
\* register wrappers, on sample arguments
IoScripts ==
    EraseCalls
    \cup {IoCall("write", a, 256, "sample", PageScript(a, 256, 0)) :
        a \in {FLASH_USER1_ADDR, FLASH_USER2_ADDR + 256}}
    \cup {IoCall("write", a, 5, "sample", PageScript(a, 5, 0)) :
        a \in {FLASH_FLAG1_ADDR, FLASH_FLAG2_ADDR}}
    \cup {IoCall("read", a, FLASH_USER_SIZE, "sample", ReadScript(a, FLASH_USER_SIZE)) :
        a \in {FLASH_USER1_ADDR, FLASH_USER2_ADDR}}
    \cup {IoCall("detach", 0, 0, "sample", DetachScript(g)) : g \in Gpio88Samples}
    \cup {IoCall("attach", 0, 0, "sample", AttachScript(g, m[1], m[2])) :
        g \in Gpio88Samples, m \in {<<FALSE, FALSE>>, <<TRUE, FALSE>>, <<TRUE, TRUE>>}}
    \cup {IoCall("read_indirect", REG_GPIO88_VALUE, 1, "sample",
                 mst_read_register_indirect(REG_GPIO88_VALUE, 128, "value_read"))}
    \cup {IoCall("write_indirect", REG_MCU_CLOCK, 1, "sample",
                 mst_write_register_indirect(REG_MCU_CLOCK, MCU_CLOCK_FAST,
                                             "clock_addr", "clock_data"))}
    \cup {IoCall("poll", REG_MCU_MODE, 1, "sample",
                 <<mst_poll_register(REG_MCU_MODE, MCU_MODE_ISP, MCU_MODE_ISP, 60,
                                     "poll_read")>>)}

\* one script runs; up to two transfers of it, i and j, fail (0: none), a poll among
\* them by its deadline when timed_out.  The scripts are run on their own,
\* one in a behaviour; io_run and poll record the last operation run
RunIo ==
    /\ ~io_run.called
    /\ poll.pc = "idle"
    /\ \E s \in IoScripts :
        \E i \in 0..Len(s.script), j \in 0..Len(s.script), timed_out \in BOOLEAN :
            /\ i <= j
            /\ \A k \in {i, j} \ {0} : IsAccess(s.script[k])
            /\ timed_out => \E k \in {i, j} \ {0} : s.script[k].op = "poll"
            /\ LET failing == {i, j} \ {0}
                   polls == {k \in failing : s.script[k].op = "poll"}
                   plan == [fails |-> IF timed_out THEN failing \ polls ELSE failing,
                            timeouts |-> IF timed_out THEN polls ELSE {}]
                   r == RunScript(s.script, 1, plan)
               IN  io_run' = [called |-> TRUE, name |-> s.name, address |-> s.address,
                              size |-> s.size, caller |-> s.caller, script |-> s.script,
                              plan |-> plan, trace |-> r.trace, ret |-> r.ret]
    /\ poll' = NoPoll
    /\ UNCHANGED <<active_bank, dev_flags, version, status, ret, last_call, last_info,
                   last_response, run, ncalls, tracing, accesses, prev, detached>>
    /\ UNCHANGED <<dp_aux_dev_name, quirk_kv, xfer, gpio_run, spi>>
    /\ UNCHANGED chipVars

\* what the register does at one read of mst_poll_register
ReadOutcomes == {"match", "mismatch", "Io"}

\* a poll that goes on for as long as the register does not match
PollAfterRead_NoDeadline(p, now, at, outcome) ==
    LET reads == Append(p.reads, [at |-> at, sampled |-> now, res |-> outcome])
        q == [p EXCEPT !.now = now, !.clock = at, !.reads = reads]
    IN  IF outcome = "Io" THEN [q EXCEPT !.pc = "done", !.ret = "Io"]
        ELSE IF outcome = "mismatch" THEN [q EXCEPT !.pc = "loop"]
        ELSE [q EXCEPT !.pc = "done", !.ret = "TRUE"]

\* mst_poll_register after a read: the error of the read, or the loop
\* condition "(value & mask) != expected && now <= deadline" on the clock
\* sample taken before that read, then the test after the loop
PollAfterRead(p, now, at, outcome) ==
    LET reads == Append(p.reads, [at |-> at, sampled |-> now, res |-> outcome])
        q == [p EXCEPT !.now = now, !.clock = at, !.reads = reads]
    IN  IF outcome = "Io" THEN [q EXCEPT !.pc = "done", !.ret = "Io"]
        ELSE IF outcome = "mismatch" /\ now <= p.deadline THEN [q EXCEPT !.pc = "loop"]
        ELSE IF outcome = "match" THEN [q EXCEPT !.pc = "done", !.ret = "TRUE"]
        ELSE [q EXCEPT !.pc = "done", !.ret = "Timeout"]

\* mst_poll_register up to its loop: the clock is sampled once for the
\* deadline, and the register is read a first time
PollStart ==
    /\ poll.pc \in {"idle", "done"}
    /\ \E timeout_seconds \in 0..MaxTimeout, took \in 0..MaxTransfer, outcome \in ReadOutcomes :
        LET p == [NoPoll EXCEPT !.timeout = timeout_seconds, !.deadline = 0 + timeout_seconds]
        IN  poll' = PollAfterRead(p, 0, 0 + took, outcome)
    /\ io_run' = NoIo
    /\ UNCHANGED <<active_bank, dev_flags, version, status, ret, last_call, last_info,
                   last_response, run, ncalls, tracing, accesses, prev, detached>>
    /\ UNCHANGED <<dp_aux_dev_name, quirk_kv, xfer, gpio_run, spi>>
    /\ UNCHANGED chipVars

\* one pass of the loop of mst_poll_register: g_usleep, clock_gettime, read
PollIterate ==
    /\ poll.pc = "loop"
    /\ \E slept \in 1..MaxSleep, took \in 0..MaxTransfer, outcome \in ReadOutcomes :
        LET now == poll.clock + slept
        IN  poll' = PollAfterRead(poll, now, now + took, outcome)
    /\ UNCHANGED <<active_bank, dev_flags, version, status, ret, last_call, last_info,
                   last_response, run, ncalls, tracing, accesses, prev, detached, io_run>>
    /\ UNCHANGED <<dp_aux_dev_name, quirk_kv, xfer, gpio_run, spi>>
    /\ UNCHANGED chipVars

(***************************************************************************)
(* The loops of flash_iface_read and flash_iface_write, pass by pass        *)
(***************************************************************************)

\* xfer before any call.  kind: the function called; address, total: its
\* arguments; step: what the last pass was (the code ahead of the loop, or a
\* pass of the loop); page: the passes made before the last one; cur: the
\* local address; done: bytes_read, or total_size - remaining_size; count:
\* the passes that went through; pass: the steps of the last pass
NoXfer == [kind |-> "none", pc |-> "idle", address |-> 0, total |-> 0, step |-> "none",
           page |-> 0, cur |-> 0, done |-> 0, count |-> 0, pass |-> <<>>, ret |-> "none"]

\* calls of flash_iface_read <<address, buf_size>>: nothing to read, one
\* byte, one byte short of a transaction, one transaction, one byte more,
\* two transactions and a byte, a bank, the whole flash, the first and the
\* last address, and arguments over the limits
ReadCalls ==
    {<<0, 0>>, <<0, 1>>, <<1, 255>>, <<FLASH_USER1_ADDR, 256>>, <<FLASH_USER2_ADDR, 257>>,
     <<FLASH_FLAG1_ADDR, 513>>, <<FLASH_USER1_ADDR, FLASH_USER_SIZE>>, <<0, FLASH_SIZE>>,
     <<FLASH_SIZE - 1, 1>>, <<FLASH_SIZE, 1>>, <<FLASH_SIZE, 0>>, <<FLASH_SIZE + 1, 256>>,
     <<16777216, 1>>, <<0, FLASH_SIZE + 1>>, <<FLASH_USER1_ADDR, FLASH_SIZE + 256>>}

\* calls of flash_iface_write <<address, total_size>>: no data, one byte, a
\* bank flag, one page, one byte more, two pages and a part, an image
WriteCalls ==
    {<<FLASH_USER1_ADDR, 0>>, <<FLASH_USER1_ADDR, 1>>, <<FLASH_FLAG1_ADDR, 5>>,
     <<FLASH_FLAG2_ADDR, 5>>, <<FLASH_USER1_ADDR, 256>>, <<FLASH_USER2_ADDR, 257>>,
     <<FLASH_USER1_ADDR + 128, 600>>, <<FLASH_USER1_ADDR, FLASH_USER_SIZE>>,
     <<FLASH_USER2_ADDR, FLASH_USER_SIZE>>}

\* the script, run up to its k-th step, which fails (0: none does), by the
\* deadline of the poll when timed_out
RunUpTo(script, k, timed_out) ==
    RunScript(script, 1, [fails |-> IF timed_out THEN {} ELSE {k} \ {0},
                          timeouts |-> IF timed_out THEN {k} ELSE {}])

\* flash_iface_read up to its loop.  The calls are run on their own, one in
\* a behaviour
FlashReadStart ==
    /\ xfer.pc = "idle"
    /\ \E c \in ReadCalls :
        \E script \in {ReadSetupScript(c[1], c[2])} :
        \E k \in 0..Len(script) :
        \E r \in {RunUpTo(script, k, FALSE)} :
            /\ k # 0 => IsAccess(script[k])
            /\ xfer' = [NoXfer EXCEPT !.kind = "read", !.address = c[1], !.total = c[2],
                                      !.step = "setup", !.pass = r.trace,
                                      !.pc = IF r.ret = "ok" /\ 0 < c[2] THEN "loop"
                                             ELSE "done",
                                      !.ret = IF r.ret # "ok" THEN r.ret
                                              ELSE IF 0 < c[2] THEN "none" ELSE "TRUE"]
    /\ UNCHANGED <<active_bank, dev_flags, version, status, ret, last_call, last_info,
                   last_response, run, ncalls, tracing, accesses, prev, detached, io_run,
                   poll, dp_aux_dev_name, quirk_kv, gpio_run, spi>>
    /\ UNCHANGED chipVars

\* one pass of "while (bytes_read < buf_size)"
FlashReadIterate ==
    /\ xfer.kind = "read"
    /\ xfer.pc = "loop"
    /\ \E failed \in BOOLEAN :
        LET read_len == ReadLen(xfer.done, xfer.total)
            r == RunUpTo(<<pread_full(xfer.done, read_len, "data")>>,
                         IF failed THEN 1 ELSE 0, FALSE)
            bytes_read == xfer.done + read_len
        IN  xfer' = IF r.ret # "ok"
                    THEN [xfer EXCEPT !.step = "pass", !.page = xfer.count, !.pass = r.trace,
                                      !.pc = "done", !.ret = r.ret]
                    ELSE [xfer EXCEPT !.step = "pass", !.page = xfer.count, !.pass = r.trace,
                                      !.done = bytes_read, !.count = @ + 1,
                                      !.pc = IF bytes_read < xfer.total THEN "loop"
                                             ELSE "done",
                                      !.ret = IF bytes_read < xfer.total THEN "none"
                                              ELSE "TRUE"]
    /\ UNCHANGED <<active_bank, dev_flags, version, status, ret, last_call, last_info,
                   last_response, run, ncalls, tracing, accesses, prev, detached, io_run,
                   poll, dp_aux_dev_name, quirk_kv, gpio_run, spi>>
    /\ UNCHANGED chipVars

\* the ISP bit of the chip after the steps of a trace.  The chip changes it
\* on a write to MCU_MODE: it leaves ISP mode when bit 7 of the value is
\* clear, and is in ISP mode, or not yet, when the bit is set; a write that
\* failed may have reached the chip or not
McuModeOutcomes(isp_now, trace) ==
    LET writes == {k \in 1..Len(trace) : trace[k].op = "write" /\ trace[k].reg = REG_MCU_MODE}
    IN  IF writes = {} THEN {isp_now}
        ELSE LET k == CHOOSE i \in writes : \A j \in writes : j <= i
                 asked == (trace[k].val \div MCU_MODE_ISP) % 2 = 1
             IN  IF asked THEN {isp_now, TRUE}
                 ELSE IF trace[k].res = "ok" THEN {FALSE}
                 ELSE {isp_now, FALSE}

\* flash_iface_write up to its loop
FlashWriteStart ==
    /\ xfer.pc = "idle"
    /\ \E c \in WriteCalls :
        xfer' = [NoXfer EXCEPT !.kind = "write", !.address = c[1], !.total = c[2],
                               !.step = "setup", !.cur = c[1],
                               !.pc = IF c[2] > 0 THEN "loop" ELSE "done",
                               !.ret = IF c[2] > 0 THEN "none" ELSE "TRUE"]
    /\ UNCHANGED <<active_bank, dev_flags, version, status, ret, last_call, last_info,
                   last_response, run, ncalls, tracing, accesses, prev, detached, io_run,
                   poll, dp_aux_dev_name, quirk_kv, gpio_run, spi>>
    /\ UNCHANGED chipVars

\* one pass of "while (remaining_size > 0)", and what the chip makes of the
\* write to MCU_MODE that starts the page
FlashWriteIterate ==
    /\ xfer.kind = "write"
    /\ xfer.pc = "loop"
    /\ \E chunk_size \in {ChunkSize(xfer.total - xfer.done)} :
        \E script \in {PageScript(xfer.cur, chunk_size, xfer.done)} :
        \E k \in 0..Len(script), timed_out \in BOOLEAN :
        \E r \in {RunUpTo(script, k, timed_out)} :
            /\ timed_out => (k # 0 /\ script[k].op = "poll")
            /\ isp' \in McuModeOutcomes(isp, r.trace)
            /\ LET remaining_size == xfer.total - xfer.done - chunk_size
               IN  xfer' = IF r.ret # "ok"
                           THEN [xfer EXCEPT !.step = "pass", !.page = xfer.count,
                                             !.pass = r.trace, !.pc = "done", !.ret = r.ret]
                           ELSE [xfer EXCEPT !.step = "pass", !.page = xfer.count,
                                             !.pass = r.trace,
                                             !.done = @ + chunk_size,
                                             !.cur = @ + chunk_size,
                                             !.count = @ + 1,
                                             !.pc = IF remaining_size > 0 THEN "loop"
                                                    ELSE "done",
                                             !.ret = IF remaining_size > 0 THEN "none"
                                                     ELSE "TRUE"]
    /\ UNCHANGED <<active_bank, dev_flags, version, status, ret, last_call, last_info,
                   last_response, run, ncalls, tracing, accesses, prev, detached, io_run,
                   poll, dp_aux_dev_name, quirk_kv, gpio_run, spi>>
    /\ UNCHANGED <<resp, running_bank, gpio88_config, gpio88_value, mcu_clock, flash,
                   flash0>>

(***************************************************************************)
(* mst_set_gpio88 on any content of the two registers                       *)
(***************************************************************************)

\* calls of mst_set_gpio88 in a behaviour
MaxGpioCalls == 2

NoGpio == [n |-> 0, level |-> FALSE, before |-> [config |-> 0, value |-> 0],
           trace |-> <<>>, ret |-> "none"]

\* mst_set_gpio88 called alone, again only after a call that succeeded
SetGpio88 ==
    /\ gpio_run.n < MaxGpioCalls
    /\ gpio_run.n = 0 \/ gpio_run.ret = "ok"
    /\ \E level \in BOOLEAN, stage \in GpioStages \cup {"none"}, took \in BOOLEAN :
        /\ took => stage \in {"config_write_data", "value_write_data"}
        /\ LET before == [config |-> gpio88_config, value |-> gpio88_value]
               g == mst_set_gpio88(before, level, stage, took)
               script == Gpio88Script(before, level)
           IN  /\ gpio88_config' = g.config
               /\ gpio88_value' = g.value
               /\ gpio_run' = [n |-> gpio_run.n + 1, level |-> level, before |-> before,
                               trace |-> RunScript(script, 1, FailsAt(script, stage)).trace,
                               ret |-> g.ret]
    /\ UNCHANGED <<active_bank, dev_flags, version, status, ret, last_call, last_info,
                   last_response, run, ncalls, tracing, accesses, prev, detached, io_run,
                   poll, dp_aux_dev_name, quirk_kv, xfer, spi>>
    /\ UNCHANGED <<resp, running_bank, isp, mcu_clock, flash, flash0>>

(***************************************************************************)
(* Quirk loader                                                            *)
(***************************************************************************)

\* self->dp_aux_dev_name before a quirk set it (NULL)
NoName == "(null)"

NoQuirk == [key |-> "", value |-> ""]

\* keys the quirk files hand to the device: the one of this plugin, the same
\* in another case, a prefix of it, keys of the base class, no key
QuirkKeys ==
    {"RealtekMstDpAuxName", "realtekmstdpauxname", "RealtekMstDpAux",
     "RealtekMstDpAuxNames", "Name", "Flags", ""}

QuirkValues == {"DPDDC-A", "DPDDC-B", "AUX C/DDI C/PHY C", ""}

\* a loader that stores the value of any key
set_quirk_kv_AnyKey(name, key, value) == [name |-> value, ret |-> "TRUE"]

\* fu_realtek_mst_device_set_quirk_kv: g_strcmp0 is equality of strings
set_quirk_kv(name, key, value) ==
    IF key = "RealtekMstDpAuxName"
    THEN [name |-> value, ret |-> "TRUE"]
    ELSE [name |-> name, ret |-> "NotSupported"]

\* klass_device->set_quirk_kv
SetQuirkKv ==
    /\ ncalls < MaxCalls
    /\ \E key \in QuirkKeys, value \in QuirkValues :
        \E q \in {set_quirk_kv(dp_aux_dev_name, key, value)} :
            /\ dp_aux_dev_name' = q.name
            /\ ret' = q.ret
            /\ quirk_kv' = [key |-> key, value |-> value]
    /\ ncalls' = ncalls + 1
    /\ last_call' = "set_quirk_kv"
    /\ UNCHANGED <<active_bank, dev_flags, version, status, last_info, last_response, run,
                   tracing, accesses, prev, detached, io_run, poll, xfer, gpio_run, spi>>
    /\ UNCHANGED chipVars

(***************************************************************************)
(* Generic SPI flash over an adapter                                       *)
(***************************************************************************)

\* calls on a FuSpiFlash in a behaviour
MaxSpiCalls == 2

CMD_WRITE_ENABLE == 4
CMD_WRITE_DISABLE == 6

\* one call of a function of the adapter: ll_read with its address and the
\* length of its data, ll_command with its tx_bytes and rx_bytes_len
LlRead(address, len) ==
    [fn |-> "ll_read", tx |-> <<>>, address |-> address, len |-> len]
LlCommand(tx, rx_bytes_len) ==
    [fn |-> "ll_command", tx |-> tx, address |-> 0, len |-> rx_bytes_len]

\* fu_spi_flash_read: the adapter's ll_read when it is not NULL, with its
\* result; NOT_SUPPORTED otherwise
fu_spi_flash_read(s, address, len, adapter_ok) ==
    IF s.ll_read
    THEN [s EXCEPT !.n = @ + 1, !.call = "read", !.address = address, !.len = len,
                   !.adapter_calls = Append(@, LlRead(address, len)),
                   !.ret = IF adapter_ok THEN "TRUE" ELSE "Io"]
    ELSE [s EXCEPT !.n = @ + 1, !.call = "read", !.address = address, !.len = len,
                   !.ret = "NotSupported"]

\* fu_spi_flash_enable_write: one command byte through ll_command, nothing
\* read back
fu_spi_flash_enable_write(s, enable, adapter_ok) ==
    [s EXCEPT !.n = @ + 1, !.call = "enable_write", !.address = 0, !.len = 0,
              !.adapter_calls =
                  Append(@, LlCommand(<<IF enable THEN CMD_WRITE_ENABLE
                                        ELSE CMD_WRITE_DISABLE>>, 0)),
              !.ret = IF adapter_ok THEN "TRUE" ELSE "Io"]

FuSpiFlashRead ==
    /\ spi.n < MaxSpiCalls
    /\ \E address \in {0, 1, 1048575}, len \in {0, 1, 256}, adapter_ok \in BOOLEAN :
        /\ ~spi.ll_read => adapter_ok
        /\ spi' = fu_spi_flash_read(spi, address, len, adapter_ok)
    /\ UNCHANGED <<active_bank, dev_flags, version, status, ret, last_call, last_info,
                   last_response, run, ncalls, tracing, accesses, prev, detached, io_run,
                   poll, dp_aux_dev_name, quirk_kv, xfer, gpio_run>>
    /\ UNCHANGED chipVars

FuSpiFlashEnableWrite ==
    /\ spi.n < MaxSpiCalls
    /\ \E enable \in BOOLEAN, adapter_ok \in BOOLEAN :
        spi' = fu_spi_flash_enable_write(spi, enable, adapter_ok)
    /\ UNCHANGED <<active_bank, dev_flags, version, status, ret, last_call, last_info,
                   last_response, run, ncalls, tracing, accesses, prev, detached, io_run,
                   poll, dp_aux_dev_name, quirk_kv, xfer, gpio_run>>
    /\ UNCHANGED chipVars

\* a FuSpiFlash before any call
NoSpi == [ll_read |-> FALSE, n |-> 0, call |-> "none", address |-> 0, len |-> 0,
          adapter_calls |-> <<>>, ret |-> "none"]

\* the device and the host after fu_realtek_mst_device_init
InitHost ==
    /\ active_bank = FLASH_BANK_INVALID
    /\ dev_flags = {"INTERNAL", "DUAL_IMAGE", "CAN_VERIFY_IMAGE"}
    /\ version = NoVersion
    /\ status = "UNKNOWN"
    /\ ret = "none"
    /\ last_call = "init"
    /\ last_info = NoInfo
    /\ last_response = <<>>
    /\ run = NoRun
    /\ ncalls = 0
    /\ tracing \in BOOLEAN
    /\ accesses = <<>>
    /\ prev = NoPrev
    /\ detached = FALSE
    /\ io_run = NoIo
    /\ poll = NoPoll
    /\ dp_aux_dev_name = NoName
    /\ quirk_kv = NoQuirk
    /\ xfer = NoXfer
    /\ gpio_run = NoGpio

InitSession ==
    /\ InitHost
    /\ spi = NoSpi

InitChip(fill) ==
    /\ running_bank \in {FLASH_BANK_BOOT, FLASH_BANK_USER1, FLASH_BANK_USER2}
    /\ isp = FALSE
    /\ gpio88_config = 34
    /\ gpio88_value = 128
    /\ mcu_clock = 0
    /\ \E v \in fill : flash = [a \in TrackedAddrs |-> v]
    /\ flash0 = flash

Init ==
    /\ InitSession
    /\ ~tracing
    /\ InitChip(PriorBytes)
    /\ resp \in RespUpdate(running_bank)

Next == Setup \/ Reload \/ Detach \/ WriteFirmware \/ Attach

\* the host calls the hooks in any order, any transfer may fail
Spec == Init /\ [][Next]_vars

NextLifecycle == Setup \/ Reload \/ Detach \/ ReadFirmware \/ Attach

\* the hooks that do not write the flash, in any order
InitLifecycle ==
    /\ InitSession
    /\ tracing
    /\ InitChip(PriorBytes)
    /\ resp \in RespUpdate(running_bank)

SpecLifecycle == InitLifecycle /\ [][NextLifecycle]_vars

\* the chip's dual-bank status changes between two probes (a new firmware
\* booted, another bank became active), one field of the response at a time
ChipStatusChange ==
    /\ \/ \E h \in Headers : resp' = [resp EXCEPT ![1] = h[1], ![2] = h[2]]
       \/ \E e \in 0..MaxEnableByte : resp' = [resp EXCEPT ![3] = e]
       \/ \E m \in 0..MaxModeByte : resp' = [resp EXCEPT ![4] = m]
       \/ \E b \in 0..MaxBankByte : resp' = [resp EXCEPT ![5] = b]
    /\ resp' # resp
    /\ running_bank' = IF Byte(resp', 4) <= FLASH_BANK_MAX_VALUE THEN Byte(resp', 4) ELSE running_bank
    /\ UNCHANGED hostVars
    /\ UNCHANGED <<isp, gpio88_config, gpio88_value, mcu_clock, flash, flash0>>

InitIo ==
    /\ InitSession
    /\ ~tracing
    /\ InitChip({ERASED})
    /\ running_bank = FLASH_BANK_USER1
    /\ resp \in RespUpdate(running_bank)

NextIo == RunIo \/ PollStart \/ PollIterate

\* the register scripts with every transfer failing, and the poll loop
\* against every timing of the register
SpecIo == InitIo /\ [][NextIo]_vars

InitFlash ==
    /\ InitSession
    /\ ~tracing
    /\ InitChip({ERASED})
    /\ running_bank = FLASH_BANK_USER1
    /\ resp \in RespUpdate(running_bank)

NextFlash == FlashReadStart \/ FlashReadIterate \/ FlashWriteStart \/ FlashWriteIterate

\* flash_iface_read and flash_iface_write on sample arguments, pass by pass
\* of their loops, with every transfer failing
SpecFlash == InitFlash /\ [][NextFlash]_vars

InitGpio ==
    /\ InitSession
    /\ ~tracing
    /\ running_bank = FLASH_BANK_USER1
    /\ isp \in BOOLEAN
    \* every byte in one of GPIO88_CONFIG and GPIO88_VALUE, with the other as
    \* the chip has it before and after a detach
    /\ \/ gpio88_config \in 0..255 /\ gpio88_value \in {128, 129}
       \/ gpio88_config \in {34, 33} /\ gpio88_value \in 0..255
    /\ mcu_clock = 0
    /\ flash = [a \in TrackedAddrs |-> ERASED]
    /\ flash0 = flash
    /\ resp \in RespUpdate(running_bank)

NextGpio == SetGpio88

\* mst_set_gpio88 on every content of its registers, with every transfer
\* failing
SpecGpio == InitGpio /\ [][NextGpio]_vars

\* a detach ahead of the flash transfer of the behaviour
DetachBeforeFlash ==
    /\ xfer.pc = "idle"
    /\ Detach

NextIsp ==
    \/ DetachBeforeFlash
    \/ FlashReadStart \/ FlashReadIterate
    \/ FlashWriteStart \/ FlashWriteIterate

\* detach, then flash_iface_read or flash_iface_write pass by pass on the
\* chip the detach left
SpecIsp == InitFlash /\ [][NextIsp]_vars

\* a call of mst_poll_register on its own
PollAlone ==
    /\ xfer.pc = "idle"
    /\ PollStart

\* the longest transfer whose passes are followed one by one to its return:
\* two pages and a part
MaxLoopTotal == 600

\* a call of flash_iface_read on its own
FlashReadAlone ==
    /\ poll.pc = "idle"
    /\ FlashReadStart
    /\ xfer'.total <= MaxLoopTotal

\* a call of flash_iface_write on its own
FlashWriteAlone ==
    /\ poll.pc = "idle"
    /\ FlashWriteStart
    /\ xfer'.total <= MaxLoopTotal

NextLoops ==
    \/ PollAlone \/ PollIterate
    \/ FlashReadAlone \/ FlashReadIterate
    \/ FlashWriteAlone \/ FlashWriteIterate

\* the loops of the file, each making its next pass once it can: a loop
\* that has not returned goes on to its next read, sleep or page
SpecLoops ==
    /\ InitFlash
    /\ [][NextLoops]_vars
    /\ WF_vars(PollIterate)
    /\ WF_vars(FlashReadIterate)
    /\ WF_vars(FlashWriteIterate)

\* a FuSpiFlash on an adapter that implements ll_read or leaves it NULL
InitSpi ==
    /\ InitHost
    /\ ~tracing
    /\ InitChip({ERASED})
    /\ running_bank = FLASH_BANK_USER1
    /\ resp \in RespUpdate(running_bank)
    /\ flash0 = flash
    /\ \E implemented \in BOOLEAN : spi = [NoSpi EXCEPT !.ll_read = implemented]

NextSpi == FuSpiFlashRead \/ FuSpiFlashEnableWrite

SpecSpi == InitSpi /\ [][NextSpi]_vars

InitQuirk ==
    /\ InitSession
    /\ ~tracing
    /\ InitChip({ERASED})
    /\ running_bank = FLASH_BANK_USER1
    /\ resp \in RespUpdate(running_bank)

NextQuirk == SetQuirkKv

\* the quirk files are loaded, key by key
SpecQuirk == InitQuirk /\ [][NextQuirk]_vars

InitProbe ==
    /\ InitSession
    /\ ~tracing
    /\ InitChip({ERASED})
    /\ resp \in {r \in RespProbe : Truthful(r, running_bank)}

NextProbe == Setup \/ Reload \/ ChipStatusChange

\* setup and reload against every response of RespProbe
SpecProbe == InitProbe /\ [][NextProbe]_vars

-----------------------------------------------------------------------------
(* Properties of the update sequencer, checked under Spec *)

\* C1: write_firmware erases and programs only addresses of the bank the
\* session does not record as active: the USER2 image (0x80000..0xeffff) and
\* the FLAG2 sector (0xff000..0xfffff) when active_bank is User1, the USER1
\* image (0x10000..0x7ffff) and the FLAG1 sector (0xfe000..0xfefff) for any
\* other active_bank; every flash byte outside them is after the run what it
\* was before it.
C1_TargetBankOnly ==
    run.called =>
        LET target(a) ==
                IF run.bank = FLASH_BANK_USER1
                THEN (524288 <= a /\ a <= 983039) \/ (1044480 <= a /\ a <= 1048575)
                ELSE (65536 <= a /\ a <= 524287) \/ (1040384 <= a /\ a <= 1044479)
        IN  /\ \A i \in 1..Len(run.ops) :
                run.ops[i].op \in {"erase_block", "erase_sector", "write"} =>
                    /\ target(run.ops[i].addr)
                    /\ target(run.ops[i].addr + run.ops[i].len - 1)
            /\ \A a \in TrackedAddrs : ~target(a) => flash[a] = run.before[a]

\* a complete update of a device that records User1 as active changed the flash
C1_Witness ==
    /\ run.called
    /\ run.bank = FLASH_BANK_USER1
    /\ run.ret = "TRUE"
    /\ run.writable
    /\ flash # run.before

\* C2: in no sequence of setup, detach, write_firmware and attach calls,
\* whatever fails, does a byte of the image the chip is running from, or of
\* that bank's flag record, change.
C2_RunningBankIntact ==
    \A a \in TrackedAddrs :
        (\/ /\ running_bank = FLASH_BANK_USER1
            /\ \/ (FLASH_USER1_ADDR <= a /\ a < FLASH_USER1_ADDR + FLASH_USER_SIZE)
               \/ (FLASH_FLAG1_ADDR <= a /\ a < FLASH_FLAG1_ADDR + 5)
         \/ /\ running_bank = FLASH_BANK_USER2
            /\ \/ (FLASH_USER2_ADDR <= a /\ a < FLASH_USER2_ADDR + FLASH_USER_SIZE)
               \/ (FLASH_FLAG2_ADDR <= a /\ a < FLASH_FLAG2_ADDR + 5))
        => flash[a] = flash0[a]

\* C3: a write_firmware run that reaches the image write has issued exactly
\* seven block erases before it, at base + k * 0x10000 for k = 0..6.
C3_SevenBlockErases ==
    run.called =>
        LET base == IF run.bank = FLASH_BANK_USER1 THEN FLASH_USER2_ADDR ELSE FLASH_USER1_ADDR
        IN  \A i \in 1..Len(run.ops) :
                (run.ops[i].op = "write" /\ run.ops[i].addr = base) =>
                    /\ i = 8
                    /\ \A k \in 0..6 :
                        run.ops[k + 1] = [op |-> "erase_block", addr |-> base + k * 65536,
                                          len |-> 65536]

\* C4: on a chip in ISP mode with write protection released, a write_firmware
\* run of a 0x70000-byte blob in which no transfer fails verifies, and the
\* target image then reads back as the blob, whatever the flash held before.
C4_WriteReadRoundTrip ==
    (/\ run.called
     /\ run.writable
     /\ run.blob.len = FLASH_USER_SIZE
     /\ run.ret \notin {"Io", "Timeout"}) =>
        LET base == IF run.bank = FLASH_BANK_USER1 THEN FLASH_USER2_ADDR ELSE FLASH_USER1_ADDR
        IN  /\ run.ret = "TRUE"
            /\ \A a \in TrackedAddrs :
                (base <= a /\ a < base + FLASH_USER_SIZE) =>
                    flash[a] = DataByte(run.blob, a - base)

\* C5: when the image read back differs from the blob, write_firmware
\* returns a Write error after the read-back: it erases and writes nothing
\* again, issues no transfer to the flag sector, and the target bank's flag
\* sector holds what it held before the run.
C5_VerifyMismatchStops ==
    LET base == IF run.bank = FLASH_BANK_USER1 THEN FLASH_USER2_ADDR ELSE FLASH_USER1_ADDR
        flag == IF run.bank = FLASH_BANK_USER1 THEN FLASH_FLAG2_ADDR ELSE FLASH_FLAG1_ADDR
        sector == (flag \div 4096) * 4096
        n == Len(run.ops)
        differs == \E a \in TrackedAddrs :
                       /\ base <= a /\ a < base + FLASH_USER_SIZE
                       /\ flash[a] # DataByte(run.blob, a - base)
    IN  (run.called /\ differs /\ \E i \in 1..n : run.ops[i].op = "read") =>
            /\ run.ret = "Write"
            /\ run.ops[n].op = "read"
            /\ Cardinality({i \in 1..n : run.ops[i].op = "write"}) = 1
            /\ Cardinality({i \in 1..n : run.ops[i].op = "read"}) = 1
            /\ \A i \in 1..n : run.ops[i].op # "erase_sector" /\ run.ops[i].addr < sector
            /\ \A a \in TrackedAddrs : (sector <= a /\ a < sector + 4096) => flash[a] = run.before[a]
            /\ run.statuses = <<"DEVICE_ERASE", "DEVICE_WRITE", "DEVICE_VERIFY">>

\* a run on a writable chip whose read-back did not match
C5_Witness ==
    /\ run.called
    /\ run.writable
    /\ run.verified = "mismatch"
    /\ run.ret = "Write"
    /\ \E a \in TrackedAddrs : flash[a] # run.before[a]

\* C6: write_firmware touches the target bank's flag sector only after the
\* whole image was written, read back and found equal to the blob; the flag
\* rewrite is one sector erase at flag_addr & ~0xfff followed by one write
\* of the five bytes aa aa aa ff ff at flag_addr, and a run that returns
\* success has done both.
C6_FlagRewriteAfterVerify ==
    run.called =>
        LET base == IF run.bank = FLASH_BANK_USER1 THEN FLASH_USER2_ADDR ELSE FLASH_USER1_ADDR
            flag == IF run.bank = FLASH_BANK_USER1 THEN FLASH_FLAG2_ADDR ELSE FLASH_FLAG1_ADDR
            sector == (flag \div 4096) * 4096
            n == Len(run.ops)
            erase == [op |-> "erase_sector", addr |-> sector, len |-> 4096]
            F == {i \in 1..n : run.ops[i].op # "read" /\ run.ops[i].addr + run.ops[i].len > sector}
        IN  /\ F # {} =>
                /\ \E j \in 1..n :
                    /\ \A i \in F : j < i
                    /\ run.ops[j] = [op |-> "read", addr |-> base, len |-> 458752]
                    /\ \E k \in 1..(j - 1) :
                        /\ run.ops[k].op = "write"
                        /\ run.ops[k].addr = base
                        /\ run.ops[k].len = 458752
                /\ \A a \in TrackedAddrs :
                    (base <= a /\ a < base + FLASH_USER_SIZE) =>
                        flash[a] = DataByte(run.blob, a - base)
            /\ \A i \in F :
                \/ run.ops[i] = erase /\ run.ops[i - 1].op = "read"
                \/ /\ run.ops[i].op = "write"
                   /\ run.ops[i].addr = flag
                   /\ run.ops[i].len = 5
                   /\ run.ops[i].data.bytes = <<170, 170, 170, 255, 255>>
                   /\ run.ops[i - 1] = erase
            /\ run.ret = "TRUE" =>
                /\ F = {n - 1, n}
                /\ run.writable =>
                    /\ flash[flag] = 170 /\ flash[flag + 2] = 170
                    /\ flash[flag + 3] = 255 /\ flash[flag + 4] = 255
                    /\ flash[flag - 1] = 255 /\ flash[flag + 5] = 255 /\ flash[sector] = 255

\* a complete update of a device that records User2 as active, on a flash
\* that was fully programmed: the FLAG1 record went from 00 to aa aa aa ff ff
C6_Witness ==
    /\ run.called
    /\ run.bank = FLASH_BANK_USER2
    /\ run.ret = "TRUE"
    /\ run.writable
    /\ run.before[FLASH_FLAG1_ADDR] = 0
    /\ flash[FLASH_FLAG1_ADDR] = 170
    /\ flash[FLASH_FLAG1_ADDR + 4] = 255

-----------------------------------------------------------------------------
(* Properties of setup and reload, checked under SpecProbe *)

\* C7: after a setup or reload that returns success the device is UPDATABLE
\* exactly when the decoded status is enabled with mode Diff; when it is
\* not, the version is unset and active_bank is Invalid.
C7_UpdatableIffEnabledDiff ==
    (last_call = "probe_version" /\ ret = "TRUE") =>
        /\ ("UPDATABLE" \in dev_flags) <=> (last_info.is_enabled /\ last_info.mode = 1)
        /\ "UPDATABLE" \notin dev_flags => (version = NoVersion /\ active_bank = 255)

\* dual bank enabled in Copy mode: success, not updatable
C7_Witness ==
    /\ last_call = "probe_version"
    /\ ret = "TRUE"
    /\ last_info.is_enabled
    /\ last_info.mode = DUAL_BANK_COPY
    /\ "UPDATABLE" \notin dev_flags
    /\ version = NoVersion

\* C8: when setup or reload makes the device UPDATABLE, active_bank is byte 4
\* of the response and the version is "major.minor" in decimal from bytes
\* (5,6) if that bank is User1 and from bytes (7,8) if it is User2; with the
\* Boot bank active the version stays unset.
C8_ActiveBankAndVersion ==
    (last_call = "probe_version" /\ ret = "TRUE" /\ "UPDATABLE" \in dev_flags) =>
        /\ active_bank = last_response[5]
        /\ active_bank = 1 =>
            version = ToString(last_response[6]) \o "." \o ToString(last_response[7])
        /\ active_bank = 2 =>
            version = ToString(last_response[8]) \o "." \o ToString(last_response[9])
        /\ active_bank = 0 => version = NoVersion
        /\ active_bank \in {0, 1, 2}

\* User2 active: the version is the one of bytes (7,8)
C8_Witness ==
    /\ last_call = "probe_version"
    /\ ret = "TRUE"
    /\ "UPDATABLE" \in dev_flags
    /\ active_bank = FLASH_BANK_USER2
    /\ version = "3.7"

\* C9: a setup or reload whose query succeeded returns success whatever the
\* response holds; a header other than (0xca, 9), an enable byte other than
\* 1, a mode byte above 3 or a bank byte above 2 decode as not enabled and
\* leave the device not UPDATABLE.
C9_DecodeNeverErrors ==
    (last_call = "probe_version" /\ ret # "Io") =>
        /\ ret = "TRUE"
        /\ (\/ last_response[1] # 202 \/ last_response[2] # 9
            \/ last_response[3] # 1
            \/ last_response[4] > 3
            \/ last_response[5] > 2) =>
                (~last_info.is_enabled /\ "UPDATABLE" \notin dev_flags)

\* a well-formed Diff response naming bank 3
C9_Witness ==
    /\ last_call = "probe_version"
    /\ ret = "TRUE"
    /\ last_response[1] = 202 /\ last_response[2] = 9
    /\ last_response[3] = 1
    /\ last_response[4] = DUAL_BANK_DIFF
    /\ last_response[5] = 3
    /\ "UPDATABLE" \notin dev_flags

\* C10: a setup or reload whose query fails returns the I/O error with the
\* session cleared: not UPDATABLE, active_bank Invalid, no version.
C10_QueryFailureClears ==
    (last_call = "probe_version" /\ ret = "Io") =>
        /\ "UPDATABLE" \notin dev_flags
        /\ active_bank = 255
        /\ version = NoVersion

\* the query fails on a device that the call before made UPDATABLE
C10_Witness ==
    /\ last_call = "probe_version"
    /\ ret = "Io"
    /\ ncalls = 2
    /\ last_info.is_enabled
    /\ last_info.mode = DUAL_BANK_DIFF
    /\ last_info.active_bank = FLASH_BANK_USER1
    /\ "UPDATABLE" \notin dev_flags

\* C11: setup is idempotent: a successful setup that directly follows a
\* successful setup against the same chip response leaves the version, the
\* flags and the active_bank that the first call left.
C11_SetupIdempotent ==
    [][(/\ last_call = "probe_version" /\ ret = "TRUE" /\ last_response = resp
        /\ last_call' = "probe_version" /\ ret' = "TRUE" /\ ncalls' = ncalls + 1)
       => (/\ version' = version
           /\ dev_flags' = dev_flags
           /\ active_bank' = active_bank)]_vars

\* a second setup against the response that made the device UPDATABLE
C11_Witness ==
    /\ prev.same
    /\ last_call = "probe_version"
    /\ ret = "TRUE"
    /\ "UPDATABLE" \in dev_flags
    /\ active_bank = FLASH_BANK_USER1
    /\ version = "2.5"

\* C12: a successful detach has reported RESTART, written ISP to MCU_MODE,
\* polled MCU_MODE for the ISP bit with a 60 s deadline, written 0x74 to the
\* indirect register 0x06A0, set IS_BOOTLOADER and reported IDLE, and then
\* driven GPIO-88 high, in this order; the ISP bit is set, IS_BOOTLOADER is
\* set and bit 0 of GPIO88_VALUE is 1.
C12_DetachOrder ==
    (last_call = "detach" /\ ret = "TRUE") =>
        LET t == accesses
            acc(i) == <<t[i].op, t[i].reg, t[i].val>>
        IN  /\ Len(t) = 25
            /\ \A i \in 1..Len(t) : t[i].res = "ok"
            /\ t[1].op = "set_status" /\ t[1].what = "DEVICE_RESTART"
            /\ acc(2) = <<"write", 111, 128>>
            /\ t[3].op = "poll" /\ t[3].reg = 111 /\ t[3].mask = 128
            /\ t[3].expected = 128 /\ t[3].timeout = 60
            /\ acc(4) = <<"write", 244, 159>>
            /\ acc(5) = <<"write", 245, 6>>
            /\ acc(6) = <<"write", 244, 160>>
            /\ acc(7) = <<"write", 245, 116>>
            /\ t[8].op = "add_flag" /\ t[8].what = "IS_BOOTLOADER"
            /\ t[9].op = "set_status" /\ t[9].what = "IDLE"
            \* GPIO88_CONFIG (0x104F) read and written back with 1 in its low
            \* nibble, GPIO88_VALUE (0xFE3F) read and written back with bit 0 set
            /\ acc(10) = <<"write", 244, 159>> /\ acc(11) = <<"write", 245, 16>>
            /\ acc(12) = <<"write", 244, 79>> /\ t[13].op = "read" /\ t[13].reg = 245
            /\ acc(17) = <<"write", 245, (t[13].val \div 16) * 16 + 1>>
            /\ acc(18) = <<"write", 244, 159>> /\ acc(19) = <<"write", 245, 254>>
            /\ acc(20) = <<"write", 244, 63>> /\ t[21].op = "read" /\ t[21].reg = 245
            /\ acc(25) = <<"write", 245, (t[21].val \div 2) * 2 + 1>>
            /\ \A i \in 10..25 : IsAccess(t[i]) /\ t[i].reg \in {244, 245}
            /\ isp
            /\ "IS_BOOTLOADER" \in dev_flags
            /\ status = "IDLE"
            /\ mcu_clock = 116
            /\ gpio88_value = t[25].val
            /\ gpio88_value % 2 = 1

\* a detach that made the chip enter ISP mode and released write protect
C12_Witness ==
    /\ last_call = "detach"
    /\ ret = "TRUE"
    /\ ncalls = 1
    /\ accesses # <<>>
    /\ isp
    /\ gpio88_value % 2 = 1

\* C13: in attach the write of (value | 2) to register 0xEE may fail and
\* attach goes on: it sleeps, reads MCU_MODE again and returns success when
\* the ISP bit is clear.  A failure of any other register access of attach,
\* detach or read_firmware is the last access of the call and is returned.
C13_ResetWriteErrorIgnored ==
    (last_call \in {"attach", "detach", "read_firmware"}) =>
        LET t == accesses
            reset_write(i) == t[i].op = "write" /\ t[i].reg = 238
        IN  /\ \A i \in 1..Len(t) :
                (last_call = "attach" /\ reset_write(i)) =>
                    /\ i > 1 /\ t[i - 1].op = "read" /\ t[i - 1].reg = 238
                    /\ t[i].val = BitOr(t[i - 1].val, 2)
                    /\ i + 2 <= Len(t)
                    /\ t[i + 1].op = "sleep"
                    /\ t[i + 2].op = "read" /\ t[i + 2].reg = 111
                    /\ (t[i + 2].res = "ok" /\ t[i + 2].val < 128) => ret = "TRUE"
            /\ \A i \in 1..Len(t) :
                (t[i].res # "ok" /\ ~(last_call = "attach" /\ reset_write(i))) =>
                    /\ i = Len(t)
                    /\ ret = t[i].res

\* an attach that succeeded although its reset request was not acknowledged
C13_Witness ==
    /\ last_call = "attach"
    /\ ret = "TRUE"
    /\ ~isp
    /\ \E i \in 1..Len(accesses) :
        /\ accesses[i].op = "write"
        /\ accesses[i].reg = 238
        /\ accesses[i].res = "Io"

\* C14: an attach reads the ISP bit of MCU_MODE set after its reset request
\* exactly when it fails with NEEDS_USER_ACTION; it has then added
\* NEEDS_SHUTDOWN, has left IS_BOOTLOADER as it was, and the status is
\* DEVICE_RESTART, not IDLE.
C14_ResetRefused ==
    [][(last_call' = "attach" /\ ncalls' = ncalls + 1) =>
        LET t == accesses'
            still_isp == \E i \in 2..Len(t) :
                            /\ t[i - 1].op = "sleep"
                            /\ t[i].op = "read" /\ t[i].reg = 111
                            /\ t[i].res = "ok" /\ t[i].val >= 128
        IN  /\ still_isp <=> ret' = "NeedsUserAction"
            /\ still_isp =>
                /\ "NEEDS_SHUTDOWN" \in dev_flags'
                /\ ("IS_BOOTLOADER" \in dev_flags') <=> ("IS_BOOTLOADER" \in dev_flags)
                /\ status' = "DEVICE_RESTART"
                /\ isp']_vars

\* the chip did not leave ISP mode on the attach that followed a detach
C14_Witness ==
    /\ last_call = "attach"
    /\ ret = "NeedsUserAction"
    /\ isp
    /\ "IS_BOOTLOADER" \in dev_flags
    /\ "NEEDS_SHUTDOWN" \in dev_flags
    /\ status = "DEVICE_RESTART"

\* C15: a successful attach that directly follows a successful detach leaves
\* the ISP bit clear, IS_BOOTLOADER clear and GPIO-88 low; neither call
\* starts an erase (CMD_ATTR with the busy bit), starts a page write
\* (MCU_MODE with WRITE_BUSY) or writes the FIFO register, and the flash is
\* what it was.
C15_DetachAttachRoundTrip ==
    [][(/\ last_call = "detach" /\ ret = "TRUE"
        /\ last_call' = "attach" /\ ret' = "TRUE" /\ ncalls' = ncalls + 1)
       => LET harmless(t) ==
                  \A i \in 1..Len(t) :
                      /\ ~(t[i].op \in {"write", "write_multi"} /\ t[i].reg = 112)
                      /\ ~(t[i].op = "write" /\ t[i].reg = 96 /\ t[i].val % 2 = 1)
                      /\ ~(t[i].op = "write" /\ t[i].reg = 111 /\ (t[i].val \div 32) % 2 = 1)
                      /\ t[i].op # "write_multi"
          IN  /\ ~isp'
              /\ "IS_BOOTLOADER" \notin dev_flags'
              /\ gpio88_value' % 2 = 0
              /\ harmless(accesses)
              /\ harmless(accesses')
              /\ accesses # <<>> /\ accesses' # <<>>
              /\ flash' = flash]_vars

\* an attach that succeeded right after a detach that succeeded
C15_Witness ==
    /\ prev.detach_ok
    /\ last_call = "attach"
    /\ ret = "TRUE"
    /\ ~isp
    /\ gpio88_value % 2 = 0
    /\ "IS_BOOTLOADER" \notin dev_flags

\* C16 as stated: a write_firmware run issues a flash operation only after a
\* detach that succeeded with no attach since, on a chip in ISP mode with
\* GPIO-88 high.
C16_NoFlashOpWithoutDetach ==
    (run.called /\ \E i \in 1..Len(run.ops) :
                      run.ops[i].op \in {"erase_block", "erase_sector", "write"})
        => (run.detached /\ run.writable)

\* C16: a write_firmware that is called after a detach that succeeded, with
\* no attach since, runs on a chip in ISP mode with GPIO-88 high: every
\* erase start and page-write start it issues happens in that state.
C16_WritableAfterDetach ==
    (run.called /\ run.detached) =>
        /\ run.writable
        /\ last_call = "write_firmware" => (isp /\ gpio88_value % 2 = 1)

\* an update written after a detach
C16_Witness ==
    /\ run.called
    /\ run.detached
    /\ last_call = "write_firmware"
    /\ \E i \in 1..Len(run.ops) : run.ops[i].op = "erase_block"
    /\ \E i \in 1..Len(run.ops) : run.ops[i].op = "write"
    /\ flash # run.before

\* C17 as stated: mst_poll_register returns success exactly when a read made
\* by the deadline (the clock sampled before the read is not past it) has
\* the expected value, returns Timeout exactly when no such read was made
\* and no read failed, and a success is never that of a read made after the
\* deadline.
C17_PollWithinDeadline ==
    poll.pc = "done" =>
        LET reads == poll.reads
            in_time(k) == reads[k].res = "match" /\ reads[k].sampled <= poll.deadline
            failed == \E k \in 1..Len(reads) : reads[k].res = "Io"
        IN  /\ poll.ret = "TRUE" <=> \E k \in 1..Len(reads) : in_time(k)
            /\ poll.ret = "Timeout" <=> (~failed /\ ~\E k \in 1..Len(reads) : in_time(k))
            /\ poll.ret = "TRUE" => reads[Len(reads)].sampled <= poll.deadline

\* C18: a script stops at the first transfer that fails, but for the write
\* of 0xEE in attach: the steps issued are the steps of the script up to
\* that transfer, each once and in order, and the script returns that
\* error.  In mst_poll_register a read that fails is the last read and its
\* error is returned.
C18_FailureAborts ==
    /\ io_run.called =>
        LET s == io_run.script
            t == io_run.trace
            swallowed(k) == io_run.name = "attach" /\ s[k].op = "write" /\ s[k].reg = 238
            failing == {k \in io_run.plan.fails \cup io_run.plan.timeouts : ~swallowed(k)}
        IN  /\ Len(t) <= Len(s)
            /\ \A k \in 1..Len(t) : t[k] = [s[k] EXCEPT !.res = t[k].res]
            /\ \A k \in 1..Len(t) :
                /\ k \in io_run.plan.fails => t[k].res = "Io"
                /\ k \in io_run.plan.timeouts \ io_run.plan.fails => t[k].res = "Timeout"
                /\ (t[k].res # "ok" /\ ~swallowed(k)) =>
                    /\ k = Len(t)
                    /\ io_run.ret = t[k].res
            /\ failing # {} =>
                /\ io_run.ret \in {"Io", "Timeout"}
                /\ Len(t) \in failing
                /\ \A k \in failing : Len(t) <= k
            /\ \A k \in 1..Len(s) : s[k].ignore_error => swallowed(k)
    /\ \A k \in 1..Len(poll.reads) :
        poll.reads[k].res = "Io" =>
            /\ k = Len(poll.reads)
            /\ poll.pc = "done"
            /\ poll.ret = "Io"

\* a page write whose FIFO burst failed: the write was not started
C18_Witness ==
    /\ io_run.called
    /\ io_run.name = "write"
    /\ io_run.ret = "Io"
    /\ Len(io_run.trace) < Len(io_run.script)
    /\ io_run.trace[Len(io_run.trace)].op = "write_multi"
    /\ io_run.trace[Len(io_run.trace)].res = "Io"

\* C19: a write_firmware given a blob that is not 0x70000 bytes long returns
\* failure with no erase, write or read issued and no status reported, and
\* the flash is what it was; a blob of 0x70000 bytes is not refused.
C19_BlobSizeChecked ==
    run.called =>
        /\ run.blob.len # 458752 =>
            /\ run.ret = "Precondition"
            /\ run.ops = <<>>
            /\ run.statuses = <<>>
            /\ run.verified = "not_reached"
            /\ last_call = "write_firmware" => flash = run.before
        /\ run.blob.len = 458752 =>
            /\ run.ret # "Precondition"
            /\ run.statuses # <<>>

\* a blob one byte too long given to a chip that is ready to be written
C19_Witness ==
    /\ run.called
    /\ last_call = "write_firmware"
    /\ run.blob.len = 458753
    /\ run.writable
    /\ ret = "Precondition"
    /\ flash = run.before

\* C20: read_firmware fails with NotSupported, with no register access, on a
\* session whose active_bank is Invalid or Boot.  On User1 or User2 it sets
\* the address registers to the byte before the bank base (0x10000 or
\* 0x80000), starts a read, drops one byte and reads 0x70000 bytes; it
\* writes no other register.
C20_ReadFirmware ==
    last_call = "read_firmware" =>
        LET t == accesses
            acc(i) == <<t[i].op, t[i].reg, t[i].val>>
            expected == <<<<"write", 100, IF active_bank = 1 THEN 0 ELSE 7>>,
                          <<"write", 101, 255>>,
                          <<"write", 102, 255>>,
                          <<"write", 106, 3>>>>
        IN  /\ active_bank \in {255, 0} => (ret = "NotSupported" /\ t = <<>>)
            /\ active_bank \in {1, 2} =>
                /\ ret \in {"TRUE", "Io"}
                /\ 1 <= Len(t) /\ Len(t) <= 6
                /\ \A i \in 1..Len(t) :
                    /\ i <= 4 => acc(i) = expected[i]
                    /\ i = 5 => (t[i].op = "read" /\ t[i].reg = 112)
                    /\ i = 6 => (t[i].op = "read_data" /\ t[i].len = 458752)
                /\ ret = "TRUE" <=> (Len(t) = 6 /\ t[6].res = "ok")

\* the image of USER2 read from a session that records User2 as active
C20_Witness ==
    /\ last_call = "read_firmware"
    /\ ret = "TRUE"
    /\ active_bank = 2
    /\ Len(accesses) = 6

\* C21: the quirk loader stores the value of the key RealtekMstDpAuxName as
\* the DP-AUX name and returns success; for any other key it returns
\* NOT_SUPPORTED and the DP-AUX name is what it was.
C21_QuirkKey ==
    [][(last_call' = "set_quirk_kv" /\ ncalls' = ncalls + 1) =>
        /\ quirk_kv'.key = "RealtekMstDpAuxName" =>
            (ret' = "TRUE" /\ dp_aux_dev_name' = quirk_kv'.value)
        /\ quirk_kv'.key # "RealtekMstDpAuxName" =>
            (ret' = "NotSupported" /\ dp_aux_dev_name' = dp_aux_dev_name)]_vars

\* a key that differs from RealtekMstDpAuxName in case only is refused and
\* the name loaded before stays
C21_Witness ==
    /\ last_call = "set_quirk_kv"
    /\ quirk_kv.key = "realtekmstdpauxname"
    /\ quirk_kv.value = "DPDDC-B"
    /\ ret = "NotSupported"
    /\ dp_aux_dev_name = "DPDDC-A"

\* C22: the statuses a write_firmware run reports are a prefix of ERASE,
\* WRITE, VERIFY, ERASE, WRITE, the whole of it when the run succeeds.  No
\* operation of a phase is issued before the status of the phase, and no
\* status is reported before the phase ahead of it is done: WRITE after a
\* block erase, VERIFY after the whole image was written, the second ERASE
\* after a read-back that matched, the second WRITE after the sector erase.
C22_StatusSequence ==
    run.called =>
        LET seq == <<"DEVICE_ERASE", "DEVICE_WRITE", "DEVICE_VERIFY", "DEVICE_ERASE",
                     "DEVICE_WRITE">>
            st == run.statuses
            n == Len(st)
            ops == run.ops
            issued(kind) == {i \in 1..Len(ops) : ops[i].op = kind}
        IN  /\ n <= 5
            /\ \A i \in 1..n : st[i] = seq[i]
            /\ run.ret = "TRUE" => n = 5
            /\ n < 5 => run.ret # "TRUE"
            /\ ops # <<>> => n >= 1
            /\ issued("write") # {} => n >= 2
            /\ issued("read") # {} => n >= 3
            /\ issued("erase_sector") # {} => n >= 4
            /\ Cardinality(issued("write")) >= 2 => n = 5
            /\ n >= 2 => issued("erase_block") # {}
            /\ n >= 3 => \E i \in issued("write") : ops[i].len = 458752
            /\ n >= 4 => (issued("read") # {} /\ run.verified = "match")
            /\ n >= 5 => issued("erase_sector") # {}
            /\ \A i \in issued("erase_block"), j \in issued("write") : i < j \/ n = 5
            /\ \A i \in issued("read"), j \in issued("erase_sector") : i < j

\* a complete update: the five statuses, the last one still shown
C22_Witness ==
    /\ run.called
    /\ last_call = "write_firmware"
    /\ run.ret = "TRUE"
    /\ Len(run.statuses) = 5
    /\ status = "DEVICE_WRITE"
    /\ run.verified = "match"

\* ---- C23 ----

\* a write of the start bit of an erase among the steps issued
EraseStarted(trace) ==
    \E k \in 1..Len(trace) :
        /\ trace[k].op = "write"
        /\ trace[k].reg = REG_CMD_ATTR
        /\ trace[k].val % 2 = CMD_ERASE_BUSY

\* the unit an erase call works on
EraseUnit(name) == IF name = "erase_sector" THEN SECTOR_SIZE ELSE BLOCK_SIZE

\* C23: every erase is aligned to its unit: a sector erase goes ahead only
\* at an address whose low 12 bits are zero, a block erase only at one whose
\* low 16 bits are zero; a call with any other address returns failure and
\* has written no register; every erase address write_firmware computes,
\* for either target bank, is aligned
C23_EraseAligned ==
    (io_run.called /\ io_run.name \in {"erase_sector", "erase_block"}) =>
        LET aligned == io_run.address % EraseUnit(io_run.name) = 0
        IN  /\ ~aligned => (io_run.ret = "Precondition" /\ io_run.trace = <<>>)
            /\ io_run.trace # <<>> => aligned
            /\ EraseStarted(io_run.trace) => aligned
            /\ aligned => io_run.ret # "Precondition"
            /\ io_run.caller = "write_firmware" => aligned

\* a sector erase at the address of a bank flag, which is not a sector
\* start, was refused before any register was written
C23_Witness ==
    /\ io_run.called
    /\ io_run.name = "erase_sector"
    /\ io_run.address = FLASH_FLAG1_ADDR
    /\ io_run.ret = "Precondition"
    /\ io_run.trace = <<>>

\* ---- C24 ----

\* the calls of the flash interface
FlashOps == {"read", "erase_sector", "erase_block", "write"}

\* the address registers, in the order of the address bytes
AddrRegs == <<REG_CMD_ADDR_HI, REG_CMD_ADDR_MID, REG_CMD_ADDR_LO>>

IsAddrWrite(st) ==
    st.op = "write" /\ st.reg \in {REG_CMD_ADDR_HI, REG_CMD_ADDR_MID, REG_CMD_ADDR_LO}

\* the write of the opcode of a flash operation
IsOpcodeWrite(st) ==
    st.op = "write" /\ st.reg \in {REG_READ_OPCODE, REG_ERASE_OPCODE, REG_WRITE_OPCODE}

\* the write that starts an erase or a page write
IsStartWrite(st) ==
    /\ st.op = "write"
    /\ \/ st.reg = REG_CMD_ATTR /\ st.val % 2 = CMD_ERASE_BUSY
       \/ st.reg = REG_MCU_MODE

\* HI, MID and LO were written, in that order, ahead of step k
AddrBefore(trace, k) ==
    \E h, m, l \in 1..(k - 1) :
        /\ h < m /\ m < l
        /\ trace[h].op = "write" /\ trace[h].reg = REG_CMD_ADDR_HI
        /\ trace[m].op = "write" /\ trace[m].reg = REG_CMD_ADDR_MID
        /\ trace[l].op = "write" /\ trace[l].reg = REG_CMD_ADDR_LO

\* the address registers are written once each, HI then MID then LO
AddrOrdered(trace) ==
    LET w == SelectSeq(trace, IsAddrWrite)
    IN  /\ Len(w) <= 3
        /\ \A k \in 1..Len(w) : w[k].reg = AddrRegs[k]

\* C24 as stated: in every flash operation (read, sector erase, block
\* erase, each page of a page write) the address registers are written HI,
\* MID, LO ahead of the opcode register of the operation and ahead of the
\* write that starts it
C24_AddressBeforeOpcode ==
    (io_run.called /\ io_run.name \in FlashOps) =>
        /\ AddrOrdered(io_run.trace)
        /\ \A k \in 1..Len(io_run.trace) :
            (IsOpcodeWrite(io_run.trace[k]) \/ IsStartWrite(io_run.trace[k]))
                => AddrBefore(io_run.trace, k)

\* C24: in every flash operation the address registers are written once,
\* HI then MID then LO, ahead of the write that starts the operation and
\* ahead of the FIFO burst; a read and an erase write them ahead of their
\* opcode register too, while a page write has written WRITE_OPCODE and
\* WRITE_LEN ahead of HI
C24_AddressBeforeStart ==
    (io_run.called /\ io_run.name \in FlashOps) =>
        /\ AddrOrdered(io_run.trace)
        /\ \A k \in 1..Len(io_run.trace) :
            LET st == io_run.trace[k]
            IN  /\ (IsStartWrite(st) \/ st.op = "write_multi")
                        => AddrBefore(io_run.trace, k)
                /\ (io_run.name # "write" /\ IsOpcodeWrite(st))
                        => AddrBefore(io_run.trace, k)
                /\ (io_run.name = "write" /\ IsAddrWrite(st)) =>
                        /\ k > 2
                        /\ io_run.trace[1].op = "write"
                        /\ io_run.trace[1].reg = REG_WRITE_OPCODE
                        /\ io_run.trace[2].op = "write"
                        /\ io_run.trace[2].reg = REG_WRITE_LEN

\* a page was written: the opcode and the length went out first, the address
\* bytes third to fifth, the start seventh on
C24_Witness ==
    /\ io_run.called
    /\ io_run.name = "write"
    /\ io_run.ret = "ok"
    /\ io_run.trace[1].reg = REG_WRITE_OPCODE
    /\ io_run.trace[3].reg = REG_CMD_ADDR_HI
    /\ io_run.trace[5].reg = REG_CMD_ADDR_LO
    /\ \E k \in 6..Len(io_run.trace) : IsStartWrite(io_run.trace[k])

\* ---- C29 ----

\* what a step puts on the bus
Wire(st) ==
    [op |-> st.op, reg |-> st.reg, val |-> st.val, mask |-> st.mask,
     expected |-> st.expected, timeout |-> st.timeout]

WireWrite(reg, val) ==
    [op |-> "write", reg |-> reg, val |-> val, mask |-> 0, expected |-> 0, timeout |-> 0]

\* the bus sequence of an erase, from the register map
EraseWire(name, address) ==
    <<WireWrite(REG_CMD_ADDR_HI, (address \div 65536) % 256),
      WireWrite(REG_CMD_ADDR_MID,
                IF name = "erase_sector" THEN (address \div 256) % 256 ELSE 0),
      WireWrite(REG_CMD_ADDR_LO, IF name = "erase_sector" THEN address % 256 ELSE 0),
      WireWrite(REG_CMD_ATTR, 184),
      WireWrite(REG_ERASE_OPCODE, IF name = "erase_sector" THEN 32 ELSE 216),
      WireWrite(REG_CMD_ATTR, 185),
      [op |-> "poll", reg |-> REG_CMD_ATTR, val |-> 0, mask |-> CMD_ERASE_BUSY,
       expected |-> 0, timeout |-> 10]>>

\* C29: a sector erase and a block erase write the address registers,
\* CMD_ATTR = 0xB8, ERASE_OPCODE (0x20 for a sector, 0xD8 for a block),
\* CMD_ATTR = 0xB9, then poll CMD_ATTR until ERASE_BUSY is clear, for 10
\* seconds at most; a block erase writes 0 to MID and to LO; the erase
\* returns success only after a poll that read CMD_ATTR with ERASE_BUSY
\* clear, and a timeout when the bit stayed set to the deadline
C29_EraseScript ==
    /\ (io_run.called /\ io_run.name \in {"erase_sector", "erase_block"}
            /\ io_run.address % EraseUnit(io_run.name) = 0) =>
        LET t == io_run.trace
            e == EraseWire(io_run.name, io_run.address)
        IN  /\ Len(t) <= Len(e)
            /\ \A k \in 1..Len(t) : Wire(t[k]) = e[k]
            /\ \A k \in 1..(Len(t) - 1) : t[k].res = "ok"
            /\ io_run.ret = "ok" <=> (Len(t) = Len(e) /\ t[Len(e)].res = "ok")
            /\ Len(t) < Len(e) => (t # <<>> /\ t[Len(t)].res = "Io" /\ io_run.ret = "Io")
            /\ (Len(t) = Len(e) /\ t[Len(e)].res # "ok") => io_run.ret = t[Len(e)].res
            /\ (Len(t) = Len(e) /\ Len(e) \in io_run.plan.timeouts) => io_run.ret = "Timeout"
    /\ (poll.pc = "done" /\ poll.reads # <<>>) =>
        LET last == poll.reads[Len(poll.reads)]
        IN  /\ poll.ret = "TRUE" <=> last.res = "match"
            /\ poll.ret = "Timeout" <=> last.res = "mismatch"
            /\ \A k \in 1..(Len(poll.reads) - 1) : poll.reads[k].res = "mismatch"

\* a block erase of USER2 went through all seven steps and its poll timed out
C29_Witness ==
    /\ io_run.called
    /\ io_run.name = "erase_block"
    /\ io_run.address = FLASH_USER2_ADDR
    /\ Len(io_run.trace) = 7
    /\ io_run.trace[2].val = 0
    /\ io_run.trace[5].val = 216
    /\ io_run.trace[7].res = "Timeout"
    /\ io_run.ret = "Timeout"

\* ---- C30 ----

\* the first read of MCU_MODE in a trace (0: none)
FirstModeRead(t) ==
    IF \E i \in 1..Len(t) : t[i].op = "read" /\ t[i].reg = REG_MCU_MODE
    THEN CHOOSE i \in 1..Len(t) :
            /\ t[i].op = "read" /\ t[i].reg = REG_MCU_MODE
            /\ \A j \in 1..(i - 1) : ~(t[j].op = "read" /\ t[j].reg = REG_MCU_MODE)
    ELSE 0

\* C30: an attach that reads MCU_MODE with the ISP bit clear, once GPIO-88
\* is driven low, makes no access to register 0xEE, does not report
\* DEVICE_RESTART and does not sleep; it removes IS_BOOTLOADER, reports IDLE
\* and returns success
C30_AttachOutsideIsp ==
    [][(last_call' = "attach" /\ ncalls' = ncalls + 1 /\ tracing) =>
        LET t == accesses'
            m == FirstModeRead(t)
        IN  (m # 0 /\ t[m].res = "ok" /\ (t[m].val \div MCU_MODE_ISP) % 2 = 0) =>
                /\ ~isp
                /\ \A i \in 1..Len(t) :
                    /\ t[i].reg # REG_RESET
                    /\ ~(t[i].op = "set_status" /\ t[i].what = "DEVICE_RESTART")
                    /\ t[i].op # "sleep"
                /\ Len(t) = m + 2
                /\ t[m + 1].op = "remove_flag" /\ t[m + 1].what = "IS_BOOTLOADER"
                /\ t[m + 2].op = "set_status" /\ t[m + 2].what = "IDLE"
                /\ \A i \in 1..(m - 1) : t[i].res = "ok"
                /\ ret' = "TRUE"
                /\ "IS_BOOTLOADER" \notin dev_flags'
                /\ status' = "IDLE"
                /\ ~isp'
                /\ gpio88_value' % 2 = 0]_vars

\* an attach found a chip that holds the bootloader flag outside ISP mode
C30_Witness ==
    /\ last_call = "attach"
    /\ tracing
    /\ ret = "TRUE"
    /\ status = "IDLE"
    /\ "IS_BOOTLOADER" \notin dev_flags
    /\ FirstModeRead(accesses) # 0
    /\ accesses[FirstModeRead(accesses)].val = 0
    /\ Len(accesses) = FirstModeRead(accesses) + 2
    /\ \A i \in 1..Len(accesses) : accesses[i].reg # REG_RESET

\* ---- C25 ----

\* the registers of a page of a page write, in the order they are accessed
PageOrder ==
    <<<<"write", REG_WRITE_OPCODE>>, <<"write", REG_WRITE_LEN>>,
      <<"write", REG_CMD_ADDR_HI>>, <<"write", REG_CMD_ADDR_MID>>,
      <<"write", REG_CMD_ADDR_LO>>, <<"poll", REG_MCU_MODE>>,
      <<"write_multi", REG_WRITE_FIFO>>, <<"write", REG_MCU_MODE>>,
      <<"poll", REG_MCU_MODE>>>>

\* a poll of MCU_MODE for a bit to clear, which it did
PollCleared(st, bit) ==
    /\ st.op = "poll" /\ st.reg = REG_MCU_MODE
    /\ st.mask = bit /\ st.expected = 0 /\ st.timeout = 10
    /\ st.res = "ok"

\* C25: within each page the order is WRITE_OPCODE, WRITE_LEN, the address
\* bytes HI, MID, LO, the poll for WRITE_BUF to clear, the FIFO burst,
\* MCU_MODE = ISP | WRITE_BUSY, the poll for WRITE_BUSY to clear; the FIFO is
\* not loaded before the poll for WRITE_BUF succeeded, and no register of a
\* page is written before the poll for WRITE_BUSY of the page before it
\* succeeded
C25_PageOrder ==
    [][(xfer'.kind = "write" /\ xfer'.step = "pass" /\ xfer' # xfer) =>
        LET t == xfer'.pass
        IN  /\ t # <<>>
            /\ Len(t) <= Len(PageOrder)
            /\ \A k \in 1..Len(t) : <<t[k].op, t[k].reg>> = PageOrder[k]
            /\ \A k \in 1..(Len(t) - 1) : t[k].res = "ok"
            /\ Len(t) >= 1 => t[1].val = 2
            /\ Len(t) >= 8 => t[8].val = 160
            /\ \A k \in 1..Len(t) :
                t[k].op = "write_multi" =>
                    (k > 1 /\ PollCleared(t[k - 1], MCU_MODE_WRITE_BUF))
            /\ xfer.step = "pass" =>
                /\ Len(xfer.pass) = Len(PageOrder)
                /\ PollCleared(xfer.pass[Len(PageOrder)], MCU_MODE_WRITE_BUSY)
            /\ xfer'.ret \in {"none", "TRUE"} =>
                /\ Len(t) = Len(PageOrder)
                /\ PollCleared(t[Len(PageOrder)], MCU_MODE_WRITE_BUSY)
            /\ xfer'.count = xfer.count + 1 <=> xfer'.ret \in {"none", "TRUE"}]_vars

\* the third page of a write of 600 bytes went through, after two others
C25_Witness ==
    /\ xfer.kind = "write"
    /\ xfer.total = 600
    /\ xfer.step = "pass"
    /\ xfer.page = 2
    /\ xfer.count = 3
    /\ Len(xfer.pass) = 9
    /\ PollCleared(xfer.pass[6], MCU_MODE_WRITE_BUF)
    /\ PollCleared(xfer.pass[9], MCU_MODE_WRITE_BUSY)
    /\ xfer.ret = "TRUE"

\* ---- C26 ----

\* the steps of a kind in a trace
StepsOf(t, op) == {k \in 1..Len(t) : t[k].op = op}

\* C26: a flash read of N bytes, N any of 0..0x100000, that succeeds issues
\* one discard read of one byte and then ceil(N / 256) data reads and no
\* more; each data read is of 256 bytes at most, the lengths add up to N, and
\* each fills the buffer right behind the one before it, with no gap and no
\* overlap
C26_ReadChunks ==
    [][(xfer'.kind = "read" /\ xfer' # xfer) =>
        LET t == xfer'.pass
            N == xfer'.total
        IN  /\ (xfer'.step = "setup" /\ xfer'.ret \in {"none", "TRUE"}) =>
                /\ N <= 1048576
                /\ Cardinality(StepsOf(t, "read")) = 1
                /\ StepsOf(t, "read") = {Len(t)}
                /\ t[Len(t)].reg = 112
                /\ StepsOf(t, "read_data") = {}
                /\ xfer'.done = 0 /\ xfer'.count = 0
            /\ xfer'.step = "setup" => StepsOf(t, "read_data") = {}
            /\ xfer'.step = "pass" =>
                /\ xfer.ret = "none"
                /\ Len(t) = 1
                /\ t[1].op = "read_data"
                /\ t[1].len \in 1..256
                /\ t[1].off = xfer.done
                /\ t[1].off = 256 * xfer.count
                /\ t[1].off + t[1].len <= N
                /\ t[1].len = 256 \/ t[1].off + t[1].len = N
                /\ t[1].res = "ok" =>
                    /\ xfer'.done = xfer.done + t[1].len
                    /\ xfer'.count = xfer.count + 1
                /\ t[1].res # "ok" => (xfer'.ret = "Io" /\ xfer'.done = xfer.done)
            /\ xfer'.ret = "TRUE" =>
                /\ xfer'.done = N
                /\ xfer'.count = (N + 255) \div 256
            /\ xfer'.ret = "none" => xfer'.done < N]_vars

\* the whole flash was read in 4096 data reads, and 513 bytes in three
C26_Witness ==
    /\ xfer.kind = "read"
    /\ xfer.ret = "TRUE"
    /\ xfer.total = 1048576
    /\ xfer.count = 4096
    /\ xfer.pass[1].off = 1048320
    /\ xfer.pass[1].len = 256

\* ---- C27 ----

\* C27: a flash read at an address A below 0x100000 sets the address
\* registers to (A - 1) mod 2^24, split into HI, MID and LO; for A = 0 they
\* are 0xFF, 0xFF, 0xFF; a read at 0x100000 or above, or of more than
\* 0x100000 bytes, fails with no register access
C27_ReadAddress ==
    (xfer.kind = "read" /\ xfer.step = "setup") =>
        LET t == xfer.pass
            A == xfer.address
            refused == A >= 1048576 \/ xfer.total > 1048576
            a == IF A = 0 THEN 16777215 ELSE A - 1
            bytes == <<(a \div 65536) % 256, (a \div 256) % 256, a % 256>>
        IN  /\ refused => (t = <<>> /\ xfer.ret = "Precondition" /\ xfer.pc = "done")
            /\ ~refused =>
                /\ xfer.ret # "Precondition"
                /\ t # <<>>
                /\ \A k \in 1..Len(t) :
                    k <= 3 => /\ t[k].op = "write"
                              /\ t[k].reg = AddrRegs[k]
                              /\ t[k].val = bytes[k]
                /\ \A k \in 1..Len(t) : k > 3 => ~IsAddrWrite(t[k])
                /\ xfer.ret \in {"none", "TRUE"} => Len(t) = 5
            /\ (A = 0 /\ ~refused) =>
                \A k \in 1..Len(t) : k <= 3 => t[k].val = 255

\* a read at address 0 went ahead with 0xFF in the three address registers
C27_Witness ==
    /\ xfer.kind = "read"
    /\ xfer.step = "setup"
    /\ xfer.address = 0
    /\ xfer.total = 1048576
    /\ xfer.ret = "none"
    /\ Len(xfer.pass) = 5
    /\ xfer.pass[1].val = 255 /\ xfer.pass[2].val = 255 /\ xfer.pass[3].val = 255

\* ---- C28 ----

\* C28: a page write of L bytes at A takes ceil(L / 256) pages; page k
\* starts at A + 256 k and carries the bytes 256 k up to min(256 (k + 1), L)
\* of the data in one FIFO burst, with WRITE_LEN the number of its bytes
\* less one, as a byte; a write of 256 bytes is one page with WRITE_LEN =
\* 0xFF, a write of one byte has WRITE_LEN = 0x00 and a burst of one byte,
\* and an image of 0x70000 bytes takes 0x700 pages
C28_PageSplit ==
    xfer.kind = "write" =>
        LET t == xfer.pass
            A == xfer.address
            L == xfer.total
            k == xfer.page
            from == 256 * k
            to == IF 256 * (k + 1) < L THEN 256 * (k + 1) ELSE L
            start == A + 256 * k
        IN  /\ xfer.step = "pass" =>
                /\ from < to
                /\ Cardinality(StepsOf(t, "write_multi")) <= 1
                /\ \A i \in 1..Len(t) :
                    /\ (t[i].op = "write" /\ t[i].reg = 113) =>
                            (t[i].val = to - from - 1 /\ t[i].val \in 0..255)
                    /\ (t[i].op = "write" /\ t[i].reg = 100) =>
                            t[i].val = (start \div 65536) % 256
                    /\ (t[i].op = "write" /\ t[i].reg = 101) =>
                            t[i].val = (start \div 256) % 256
                    /\ (t[i].op = "write" /\ t[i].reg = 102) => t[i].val = start % 256
                    /\ t[i].op = "write_multi" =>
                            (t[i].reg = 112 /\ t[i].off = from /\ t[i].len = to - from)
                /\ Cardinality({i \in 1..Len(t) : t[i].op = "write" /\ t[i].reg = 113}) <= 1
                /\ xfer.ret \in {"none", "TRUE"} =>
                    /\ xfer.count = k + 1
                    /\ xfer.done = to
                    /\ xfer.cur = A + to
                    /\ Cardinality(StepsOf(t, "write_multi")) = 1
            /\ xfer.ret = "TRUE" =>
                /\ xfer.count = (L + 255) \div 256
                /\ xfer.done = L
            /\ xfer.ret = "none" => xfer.done < L
            /\ (L = 256 /\ xfer.ret = "TRUE") =>
                (xfer.count = 1 /\ t[2].reg = 113 /\ t[2].val = 255 /\ t[7].len = 256)
            /\ (L = 1 /\ xfer.ret = "TRUE") =>
                (xfer.count = 1 /\ t[2].reg = 113 /\ t[2].val = 0 /\ t[7].len = 1)
            /\ (L = 458752 /\ xfer.ret = "TRUE") => xfer.count = 1792

\* an image of 0x70000 bytes was written in 0x700 pages, the last one at the
\* last 256 bytes of the bank
C28_Witness ==
    /\ xfer.kind = "write"
    /\ xfer.address = FLASH_USER2_ADDR
    /\ xfer.total = 458752
    /\ xfer.ret = "TRUE"
    /\ xfer.count = 1792
    /\ xfer.page = 1791
    /\ xfer.pass[2].val = 255
    /\ xfer.pass[7].off = 458496

\* ---- C31 ----

\* step j of a trace is the data write of an indirect write to the 16-bit
\* address: the three writes that select the address come right before it
IndirectWriteAt(t, j, address) ==
    /\ j >= 4 /\ j <= Len(t)
    /\ t[j].op = "write" /\ t[j].reg = 245
    /\ t[j - 3].op = "write" /\ t[j - 3].reg = 244 /\ t[j - 3].val = 159
    /\ t[j - 2].op = "write" /\ t[j - 2].reg = 245 /\ t[j - 2].val = address \div 256
    /\ t[j - 1].op = "write" /\ t[j - 1].reg = 244 /\ t[j - 1].val = address % 256

\* GPIO-88 was driven to the level by the steps ahead of step k: an output
\* written to GPIO88_CONFIG, then the level written to bit 0 of GPIO88_VALUE
Gpio88DrivenBefore(t, k, level) ==
    \E c, v \in 1..(k - 1) :
        /\ c < v
        /\ IndirectWriteAt(t, c, 4175) /\ t[c].res = "ok" /\ t[c].val % 16 = 1
        /\ IndirectWriteAt(t, v, 65087) /\ t[v].res = "ok" /\ t[v].val % 2 = level

\* C31: attach restores write protect before anything else: GPIO-88 has
\* been driven low before the first read of MCU_MODE, before the reset
\* request to 0xEE and before any report to the host; when attach returns
\* success bit 0 of GPIO88_VALUE is 0 and the ISP bit was read clear; when it
\* fails because the chip did not reset, GPIO-88 is low already
C31_AttachGpioFirst ==
    [][(last_call' = "attach" /\ ncalls' = ncalls + 1 /\ tracing) =>
        LET t == accesses'
            mode_reads == {i \in 1..Len(t) : t[i].op = "read" /\ t[i].reg = 111}
        IN  /\ \A i \in 1..Len(t) :
                (t[i].reg \in {111, 238} \/ t[i].op \notin {"read", "write"})
                    => Gpio88DrivenBefore(t, i, 0)
            /\ ret' = "TRUE" =>
                /\ gpio88_value' % 2 = 0
                /\ gpio88_config' % 16 = 1
                /\ Gpio88DrivenBefore(t, Len(t), 0)
                /\ mode_reads # {}
                /\ \E i \in mode_reads :
                    /\ \A j \in mode_reads : j <= i
                    /\ t[i].res = "ok"
                    /\ (t[i].val \div 128) % 2 = 0
                /\ ~isp'
            /\ ret' = "NeedsUserAction" =>
                /\ gpio88_value' % 2 = 0
                /\ Gpio88DrivenBefore(t, Len(t), 0)
                /\ isp']_vars

\* after a detach that drove GPIO-88 high, an attach drove it low and then
\* found that the chip did not reset
C31_Witness ==
    /\ last_call = "attach"
    /\ tracing
    /\ prev.detach_ok
    /\ ret = "NeedsUserAction"
    /\ gpio88_value % 2 = 0
    /\ Gpio88DrivenBefore(accesses, Len(accesses), 0)
    /\ \E i \in 1..Len(accesses) : accesses[i].reg = 238

\* ---- C32 ----

C33_IndirectOrder ==
    io_run.called =>
        LET t == io_run.trace
            IsIndirect(st) == st.op \in {"read", "write"} /\ st.reg \in {244, 245}
            \* the place of step k among the four steps of its indirect access
            IndirectPos(k) ==
                ((Cardinality({j \in 1..k : IsIndirect(t[j])}) - 1) % 4) + 1
        IN  \A k \in 1..Len(t) :
                IsIndirect(t[k]) =>
                    LET pos == IndirectPos(k)
                    IN  /\ pos = 1 =>
                            (t[k].op = "write" /\ t[k].reg = 244 /\ t[k].val = 159)
                        /\ pos = 2 =>
                            /\ t[k].op = "write" /\ t[k].reg = 245
                            /\ IsIndirect(t[k - 1]) /\ t[k - 1].res = "ok"
                        /\ pos = 3 =>
                            /\ t[k].op = "write" /\ t[k].reg = 244
                            /\ IsIndirect(t[k - 1]) /\ t[k - 1].res = "ok"
                            /\ (t[k - 1].val * 256 + t[k].val) \in
                                {REG_GPIO88_CONFIG, REG_GPIO88_VALUE, REG_MCU_CLOCK}
                        /\ pos = 4 =>
                            /\ t[k].reg = 245
                            /\ IsIndirect(t[k - 1]) /\ t[k - 1].res = "ok"
                            /\ IsIndirect(t[k - 2]) /\ t[k - 2].res = "ok"
                            /\ IsIndirect(t[k - 3]) /\ t[k - 3].res = "ok"
                            /\ t[k - 3].val = 159
                        /\ t[k].res # "ok" => (k = Len(t) /\ io_run.ret = t[k].res)

\* the low address byte of an indirect write was refused: no data was written
C33_Witness ==
    /\ io_run.called
    /\ io_run.name = "write_indirect"
    /\ Len(io_run.trace) = 3
    /\ io_run.trace[1].val = 159
    /\ io_run.trace[2].reg = 245 /\ io_run.trace[2].val = 6
    /\ io_run.trace[3].reg = 244 /\ io_run.trace[3].val = 160
    /\ io_run.trace[3].res = "Io"
    /\ io_run.ret = "Io"

\* ---- C34 ----

\* step j of a trace is the data write of an indirect write to the address
\* that follows an indirect read of the same address
ReadModifyWriteAt(t, j, address) ==
    /\ j >= 8
    /\ IndirectWriteAt(t, j, address)
    /\ t[j - 4].op = "read" /\ t[j - 4].reg = 245 /\ t[j - 4].res = "ok"
    /\ t[j - 7].op = "write" /\ t[j - 7].reg = 244 /\ t[j - 7].val = 159
    /\ t[j - 6].op = "write" /\ t[j - 6].reg = 245 /\ t[j - 6].val = address \div 256
    /\ t[j - 5].op = "write" /\ t[j - 5].reg = 244 /\ t[j - 5].val = address % 256

\* C34: setting GPIO-88 to a level changes only the low nibble of
\* GPIO88_CONFIG, to 1, with the high nibble that of the value just read,
\* and only bit 0 of GPIO88_VALUE, to the level, with bits 7..1 those of the
\* value just read; the write of the configuration comes before the write
\* of the value; setting the same level again leaves both registers as they
\* were after the first call
C34_Gpio88Frame ==
    [][gpio_run'.n = gpio_run.n + 1 =>
        LET t == gpio_run'.trace
            level == IF gpio_run'.level THEN 1 ELSE 0
        IN  /\ gpio88_config' \div 16 = gpio88_config \div 16
            /\ gpio88_config' # gpio88_config => gpio88_config' % 16 = 1
            /\ gpio88_value' \div 2 = gpio88_value \div 2
            /\ gpio88_value' # gpio88_value => gpio88_value' % 2 = level
            /\ gpio_run'.ret = "ok" =>
                /\ gpio88_config' = (gpio88_config \div 16) * 16 + 1
                /\ gpio88_value' = (gpio88_value \div 2) * 2 + level
                /\ Len(t) = 16
                /\ IndirectWriteAt(t, 8, 4175)
                /\ IndirectWriteAt(t, 16, 65087)
            /\ \A j \in 1..Len(t) :
                /\ IndirectWriteAt(t, j, 4175) =>
                    /\ ReadModifyWriteAt(t, j, 4175)
                    /\ t[j - 4].val = gpio88_config
                    /\ t[j].val = (t[j - 4].val \div 16) * 16 + 1
                /\ IndirectWriteAt(t, j, 65087) =>
                    /\ ReadModifyWriteAt(t, j, 65087)
                    /\ t[j - 4].val = gpio88_value
                    /\ t[j].val = (t[j - 4].val \div 2) * 2 + level
                    /\ \E c \in 1..(j - 1) : IndirectWriteAt(t, c, 4175) /\ t[c].res = "ok"
                /\ (t[j].op = "write" /\ t[j].reg = 245 /\ j % 4 = 0) =>
                    (IndirectWriteAt(t, j, 4175) \/ IndirectWriteAt(t, j, 65087))
            /\ (gpio_run.n >= 1 /\ gpio_run.ret = "ok" /\ gpio_run.level = gpio_run'.level) =>
                /\ gpio88_config' = gpio88_config
                /\ gpio88_value' = gpio88_value]_vars

\* GPIO-88 was set high twice on registers with bits set in the high nibble
\* of the configuration and in bits 7..1 of the value
C34_Witness ==
    /\ gpio_run.n = 2
    /\ gpio_run.ret = "ok"
    /\ gpio_run.level
    /\ gpio_run.before = [config |-> gpio88_config, value |-> gpio88_value]
    /\ gpio88_config = 161
    /\ gpio88_value = 129

\* ---- C35 ----

\* C35: after a detach that succeeded, every value a flash operation writes
\* to MCU_MODE has bit 7 (ISP) set: a page is started with ISP | WRITE_BUSY,
\* and a read and an erase do not write MCU_MODE; so the flash operations of
\* write_firmware, read_firmware and dump_firmware leave the chip in ISP
\* mode
C35_StaysInIsp ==
    [][(detached /\ xfer' # xfer) =>
        /\ isp
        /\ \A k \in 1..Len(xfer'.pass) :
            (xfer'.pass[k].op \in {"write", "write_multi"} /\ xfer'.pass[k].reg = 111) =>
                /\ xfer'.kind = "write"
                /\ (xfer'.pass[k].val \div 128) % 2 = 1
                /\ xfer'.pass[k].val = 160
        /\ \A c \in EraseCalls : \A k \in 1..Len(c.script) :
            ~(c.script[k].op \in {"write", "write_multi"} /\ c.script[k].reg = 111)
        /\ isp']_vars

\* after a detach an image was written, its last page started with 0xA0, and
\* the chip is in ISP mode
C35_Witness ==
    /\ detached
    /\ isp
    /\ xfer.kind = "write"
    /\ xfer.total = 458752
    /\ xfer.ret = "TRUE"
    /\ xfer.pass[8].reg = 111
    /\ xfer.pass[8].val = 160

\* ---- C36 ----

\* C36 as stated: at every return from detach or attach, with success or
\* with failure, IS_BOOTLOADER is set when the chip has been left in ISP
\* mode and is clear when the chip has been confirmed out of ISP mode (the
\* attach read MCU_MODE with the ISP bit clear)
C36_BootloaderFlagTracksIsp ==
    (last_call \in {"detach", "attach"} /\ tracing) =>
        /\ isp => "IS_BOOTLOADER" \in dev_flags
        /\ (/\ last_call = "attach"
            /\ \E i \in 1..Len(accesses) :
                /\ accesses[i].op = "read" /\ accesses[i].reg = 111
                /\ accesses[i].res = "ok"
                /\ (accesses[i].val \div 128) % 2 = 0)
           => "IS_BOOTLOADER" \notin dev_flags

\* ---- C37 ----

\* C37: mst_poll_register ends when the clock advances: it reads the
\* register once at least, with a timeout of 0 too, and returns (success,
\* Timeout or Io) after a number of reads bounded by the timeout, whether or
\* not the register comes to the expected value; so the loops built on it
\* end too: every pass of a page write and of a read returns, the bytes left
\* go down pass by pass, and the call returns
C37_LoopsTerminate ==
    /\ [](poll.pc # "idle" =>
            /\ Len(poll.reads) >= 1
            /\ Len(poll.reads) <= poll.timeout + 2
            /\ poll.pc = "done" <=> poll.ret \in {"TRUE", "Timeout", "Io"})
    /\ [](xfer.pc = "loop" => xfer.done < xfer.total)
    /\ [][(xfer.pc = "loop" /\ xfer'.pc = "loop") => xfer'.done > xfer.done]_vars
    /\ (poll.pc = "loop") ~> (poll.pc = "done")
    /\ (xfer.pc = "loop") ~> (xfer.pc = "done")

\* a poll with a timeout of 0 returned Timeout after two reads that did not
\* match
C37_Witness ==
    /\ poll.pc = "done"
    /\ poll.timeout = 0
    /\ poll.ret = "Timeout"
    /\ Len(poll.reads) = 2
    /\ poll.reads[1].res = "mismatch"
    /\ poll.reads[2].res = "mismatch"

\* ---- C38 ----

\* C38 as stated: fu_spi_flash_read uses the adapter's ll_read when the
\* adapter implements it, and otherwise performs the read through the
\* adapter's ll_command with chip commands and does not fail for the lack of
\* ll_read
C38_GenericRead ==
    /\ (spi.call = "read" /\ spi.ll_read) =>
        /\ spi.adapter_calls # <<>>
        /\ spi.adapter_calls[Len(spi.adapter_calls)] = LlRead(spi.address, spi.len)
        /\ spi.ret \in {"TRUE", "Io"}
    /\ (spi.call = "read" /\ ~spi.ll_read) =>
        /\ spi.ret # "NotSupported"
        /\ spi.adapter_calls # <<>>
        /\ spi.adapter_calls[Len(spi.adapter_calls)].fn = "ll_command"

====
